---- MODULE Spec2Model ----
(***************************************************************************)
(* A model of the path-tracing integrators of e8yes-cg                     *)
(* (corelib/src/pathtracer.cpp).                                           *)
(*                                                                         *)
(* The world is one-dimensional: a vector is an integer, the inner product *)
(* is the product, a direction is -1 or 1 and the default-constructed      *)
(* vector is 0.  Radiance is one channel, an exact rational <<num, den>>;  *)
(* <<0, 0>> stands for every non-finite float (inf, nan).                  *)
(*                                                                         *)
(* The collaborators whose code is outside the integrators (path space,    *)
(* materials, lights, rng) answer nondeterministically from small sets,    *)
(* one answer per query.                                                   *)
(***************************************************************************)
EXTENDS Integers, Sequences, FiniteSets, TLC

VARIABLES call, heap

vars == <<call, heap>>

(***************************************************************************)
(* Bounds of the model.                                                    *)
(***************************************************************************)
\* The longest vector of rays handed to one sample() call.
MaxRays == 1
\* The largest m_max_path_len a bidirect_mis tracer is constructed with.
MaxLen == 2
\* The deepest recursion level (depth argument) the model follows.
MaxDepth == 2
\* The largest multi_light_samps transport_direct_illum is applied to.
MaxLightSamps == 2
\* m_max_path_len of the two tracers that run concurrently.
ThreadLen == 1
\* The number of if_obj objects add_child and remove_child are applied to.
MaxObjs == 3
\* The number of threads that construct objects concurrently, and the number
\* of objects each of them constructs.
MaxMinters == 2
MaxMinted == 3
\* The number of render calls made on one renderer, and the largest width of
\* the compositor it renders to.
MaxRenders == 3
MaxWidth == 2
\* The width of unsigned and int in the model; the code's 32 bits are beyond
\* the integers of the model checker, and the lengths wrap the same way.
UnsignedBits == 16

(***************************************************************************)
(* Exact arithmetic for float radiance.                                    *)
(***************************************************************************)
Abs(x) == IF x < 0 THEN -x ELSE x

RECURSIVE Gcd(_, _)
Gcd(a, b) == IF b = 0 THEN a ELSE Gcd(b, a % b)

NaN == <<0, 0>>

Norm(n, d) ==
    IF d = 0 THEN NaN
    ELSE LET g == Gcd(Abs(n), Abs(d))
             s == IF d < 0 THEN -1 ELSE 1
         IN  <<s * (n \div g), s * (d \div g)>>

Val(n) == <<n, 1>>
Zero == Val(0)
One == Val(1)
Half == <<1, 2>>

IsNaN(a) == a[2] = 0

\* The operands are values: each is evaluated once, as a C++ operator's arguments are.
VAdd(a, b) ==
    CHOOSE r \in {IF IsNaN(x) \/ IsNaN(y) THEN NaN
                  ELSE Norm(x[1] * y[2] + y[1] * x[2], x[2] * y[2]) : x \in {a}, y \in {b}} : TRUE

VMul(a, b) ==
    CHOOSE r \in {IF IsNaN(x) \/ IsNaN(y) THEN NaN
                  ELSE Norm(x[1] * y[1], x[2] * y[2]) : x \in {a}, y \in {b}} : TRUE

\* x / 0 is inf or nan in the code's float arithmetic: not finite.
VDiv(a, b) ==
    CHOOSE r \in {IF IsNaN(x) \/ IsNaN(y) \/ y[1] = 0 THEN NaN
                  ELSE Norm(x[1] * y[2], x[2] * y[1]) : x \in {a}, y \in {b}} : TRUE

VLess(a, b) == ~IsNaN(a) /\ ~IsNaN(b) /\ a[1] * b[2] < b[1] * a[2]

(***************************************************************************)
(* Vectors, rays and the scene.                                            *)
(***************************************************************************)
Null == 0
Dirs == {-1, 1}
Normals == {-1, 1}
Geos == {1, 2}
Emitters == {2}

inner(a, b) == a * b

\* if_light_sources::obj_light: the emitter attached to a geometry, or null.
obj_light(g) == IF g \in Emitters THEN g ELSE Null

\* The default-constructed intersect_info: the miss.
intersect_info == [valid |-> FALSE, normal |-> 0, geo |-> Null, vertex |-> 0]

\* What if_path_space::intersect may return for a ray: a miss (whose normal
\* the caller reads before it checks valid()), or a hit of a geometry on
\* either of its faces.  A geometry lies at the coordinate of its id.
Intersections ==
    {[valid |-> FALSE, normal |-> n, geo |-> Null, vertex |-> 0] : n \in {-1, 0, 1}}
    \cup {[valid |-> TRUE, normal |-> n, geo |-> g, vertex |-> g] :
              n \in Normals, g \in Geos}

\* if_path_space::aabb.
aabb == [min |-> 0, max |-> 2]

\* if_light::radiance(w, n): emitted radiance, zero on the back side.
radiance(l, w, n) == IF inner(w, n) > 0 THEN Val(l) ELSE Zero

\* if_light::projected_radiance(w, n) = radiance * max(0, n.w).
projected_radiance(l, w, n) ==
    VMul(radiance(l, w, n), Val(IF inner(w, n) > 0 THEN inner(w, n) ELSE 0))

\* The geometries whose material is not opaque: seen from the front it also
\* passes on light that arrives from behind, so its eval is not symmetric in
\* its two directions.
Transmissive == {1}

\* if_material::eval(uv, n, o, i): the BRDF of the material of geometry g,
\* o the outgoing and i the incoming direction.
mat_eval(g, n, o, i) ==
    IF inner(n, o) > 0 /\ inner(n, i) > 0 THEN Val(g)
    ELSE IF g \in Transmissive /\ inner(n, o) > 0 /\ inner(n, i) < 0 THEN One
    ELSE Zero

\* brdf(vert, o, i, mats).
brdf(vert, o, i) == mat_eval(vert.geo, vert.normal, o, i)

\* if_light::eval(l, n_illum, n_target): the radiance light lgt sends along l
\* from a point with normal n_l to a surface with normal n_t, cosines and
\* 1/d^2 folded in.
light_eval(lgt, l, n_l, n_t) ==
    IF inner(n_l, l) > 0 /\ inner(n_t, -l) > 0
    THEN VDiv(Val(lgt), Val(l * l))
    ELSE Zero

\* if_light_sources::sample_light: the emitter picked and its probability mass.
LightPicks == {[light |-> l, mass |-> One] : l \in Emitters}

\* if_light::sample_emssion_surface: a point of the emitter, its normal and
\* its area density.  Emitters' sampled points lie at coordinate 3.
SurfaceSamples ==
    {[p |-> 3, n |-> n, area_dens |-> Val(2)] : n \in Normals}

\* if_light::sample_emssion: a surface sample, a direction and its density.
EmissionSamples ==
    {[surface |-> sf, w |-> w, solid_angle_dens |-> Val(2)] :
        sf \in SurfaceSamples, w \in Dirs}

\* if_material::sample: the sampled direction and its density (0: absorbed).
BrdfSamples == {[i |-> i, dens |-> Val(d)] : i \in Dirs, d \in {0, 2}}

(***************************************************************************)
(* One sample() call: the state of the call c is the record call[c].       *)
(***************************************************************************)
Tracers ==
    {"position", "normal", "direct", "unidirect", "unidirect_lt1",
     "bidirect_lt2", "bidirect_mis"}

\* The rays of a call: up to MaxRays directions.
RayVectors == UNION {[1..n -> Dirs] : n \in 0..MaxRays}

NoReturn == [why |-> "none", acc |-> Zero, ps |-> One, depth |-> 0, draws |-> <<>>]

\* One step of call c to one of the local states in S; the heap is untouched.
Step(c, S) == /\ \E t \in S : call' = [call EXCEPT ![c] = t]
              /\ UNCHANGED heap

(***************************************************************************)
(* if_path_tracer::compute_first_hit                                       *)
(***************************************************************************)
\* A first hit that keeps back-facing intersections.
first_hit_any_face(v, x) ==
    IF x.valid
    THEN [intersect |-> x, light |-> obj_light(x.geo)]
    ELSE [intersect |-> x, light |-> Null]

\* The first hit of a ray of direction v whose closest intersection is x.
first_hit(v, x) ==
    IF inner(x.normal, -v) <= 0
    THEN [intersect |-> intersect_info, light |-> Null]
    ELSE IF x.valid
         THEN [intersect |-> x, light |-> obj_light(x.geo)]
         ELSE [intersect |-> x, light |-> Null]

\* closest keeps what path_space.intersect answered for each ray.
compute_first_hit(c) ==
    LET s == call[c] IN
    /\ s.pc = "first_hit"
    /\ \E xs \in [1..Len(s.rays) -> Intersections] :
          call' = [call EXCEPT ![c] =
                     [s EXCEPT !.hits = [i \in 1..Len(s.rays) |-> first_hit(s.rays[i], xs[i])],
                               !.closest = xs,
                               !.pc = "enter"]]
    /\ UNCHANGED heap

(***************************************************************************)
(* position_tracer::sample, normal_tracer::sample                          *)
(***************************************************************************)
\* A position tracer that jitters its output with a draw of the rng.
position_tracer_jittered(s) ==
    LET h == s.hits[s.pix].intersect
        p == VDiv(Val(h.vertex - aabb.min), Val(aabb.max - aabb.min))
    IN  {[s EXCEPT !.rad[s.pix] = IF h.valid THEN VAdd(p, d) ELSE Zero,
                   !.pix = s.pix + 1] : d \in {Zero, Half}}

\* The local states after the position tracer has written pixel s.pix.
position_tracer_sample(s) ==
    LET h == s.hits[s.pix].intersect
        p == VDiv(Val(h.vertex - aabb.min), Val(aabb.max - aabb.min))
    IN  {[s EXCEPT !.rad[s.pix] = IF h.valid THEN p ELSE Zero,
                   !.pix = s.pix + 1]}

\* A normal tracer that does not look at valid().
normal_tracer_unchecked(s) ==
    LET h == s.hits[s.pix].intersect
    IN  {[s EXCEPT !.rad[s.pix] = VDiv(Val(h.normal + 1), Val(2)),
                   !.pix = s.pix + 1]}

\* The local states after the normal tracer has written pixel s.pix.
normal_tracer_sample(s) ==
    LET h == s.hits[s.pix].intersect
        p == VDiv(Val(h.normal + 1), Val(2))
    IN  {[s EXCEPT !.rad[s.pix] = IF h.valid THEN p ELSE Zero,
                   !.pix = s.pix + 1]}

(***************************************************************************)
(* transport_illum_source, sample_light_source, transport_direct_illum     *)
(***************************************************************************)
\* A transport that casts no shadow ray.
transport_unshadowed(lgt, p, n, target_vert, target_o_ray, occluded) ==
    LET l == target_vert.vertex - p
        illum == light_eval(lgt, l, n, target_vert.normal)
        i == IF l < 0 THEN 1 ELSE -1
    IN  IF illum = Zero THEN Zero
        ELSE VMul(illum, brdf(target_vert, target_o_ray, i))

\* The radiance carried from point p (normal n) of light lgt to target_vert
\* and reflected along target_o_ray; occluded is has_intersect's answer for
\* the shadow ray, asked only when the light's eval is not zero.
transport_illum_source(lgt, p, n, target_vert, target_o_ray, occluded) ==
    LET l == target_vert.vertex - p
        illum == light_eval(lgt, l, n, target_vert.normal)
        i == IF l < 0 THEN 1 ELSE -1
    IN  IF illum = Zero THEN Zero
        ELSE IF ~occluded THEN VMul(illum, brdf(target_vert, target_o_ray, i))
        ELSE Zero

\* What sample_light_source may return: a light and a point of it, the
\* point's area density multiplied by the light's probability mass.
LightSamples ==
    {[light |-> lp.light,
      surface |-> [sf EXCEPT !.area_dens = VMul(sf.area_dens, lp.mass)]] :
        lp \in LightPicks, sf \in SurfaceSamples}

\* One light sample and the answer to its shadow ray.
ShadowedSamples == {[ls |-> ls, occluded |-> b] : ls \in LightSamples, b \in BOOLEAN}

\* The sum of the first k samples' transports, each over its area density.
RECURSIVE direct_illum_sum(_, _, _, _)
direct_illum_sum(samps, k, target_o_ray, target_vert) ==
    IF k = 0 THEN Zero
    ELSE VAdd(direct_illum_sum(samps, k - 1, target_o_ray, target_vert),
              VDiv(transport_illum_source(samps[k].ls.light, samps[k].ls.surface.p,
                                          samps[k].ls.surface.n, target_vert,
                                          target_o_ray, samps[k].occluded),
                   samps[k].ls.surface.area_dens))

\* transport_direct_illum with multi_light_samps = Len(samps).
transport_direct_illum(samps, target_o_ray, target_vert) ==
    VDiv(direct_illum_sum(samps, Len(samps), target_o_ray, target_vert),
         Val(Len(samps)))

(***************************************************************************)
(* direct_path_tracer::sample                                              *)
(***************************************************************************)
\* probe keeps the light samples of the last call of transport_direct_illum
\* for a first hit, and what it returned.
NoProbe == [by |-> "none", pix |-> 0, samps |-> <<>>, val |-> Zero]

direct_path_tracer_sample(s) ==
    LET h == s.hits[s.pix]
        o == -s.rays[s.pix]
    IN  IF ~h.intersect.valid THEN {[s EXCEPT !.pix = s.pix + 1]}
        ELSE {LET direct == transport_direct_illum(<<x>>, o, h.intersect) IN
              [s EXCEPT !.rad[s.pix] =
                          VAdd(direct,
                               IF h.light # Null
                               THEN projected_radiance(h.light, o, h.intersect.normal)
                               ELSE Zero),
                        !.probe = [by |-> "sample", pix |-> s.pix, samps |-> <<x>>,
                                   val |-> direct],
                        !.used = s.used \cup {"rng", "lights", "space", "mats"},
                        !.pix = s.pix + 1] : x \in ShadowedSamples}

\* transport_direct_illum for the first hit of pixel s.pix with
\* multi_light_samps = n.
direct_illum_probe(s, n) ==
    LET h == s.hits[s.pix]
        o == -s.rays[s.pix]
    IN  {[s EXCEPT !.probe = [by |-> "probe", pix |-> s.pix, samps |-> xs,
                              val |-> transport_direct_illum(xs, o, h.intersect)],
                   !.used = s.used \cup {"rng", "lights", "space", "mats"}]
         : xs \in [1..n -> ShadowedSamples]}

(***************************************************************************)
(* The recursive integrators.  call[c].stack is the C++ call stack of      *)
(* sample_indirect_illum: one frame per activation, the last one on top.   *)
(* A frame is "enter" before its body has run and "wait" while the         *)
(* recursive call it made is running.                                      *)
(***************************************************************************)
\* rng.draw(): a uniform number of [0, 1).
Draws == {<<1, 4>>, Half, <<3, 4>>}

Top(st) == st[Len(st)]
Pop(st) == SubSeq(st, 1, Len(st) - 1)

Frame(depth, o, vert) ==
    [depth |-> depth, o |-> o, vert |-> vert, pc |-> "enter",
     p_survive |-> One, acc |-> Zero, i |-> 0, dens |-> Zero, draws |-> <<>>]

\* The outer sample() takes the value of the depth-0 activation for the
\* pixel, adds the radiance of a first hit that is an emitter, and goes on
\* to the next ray.
finish_pixel(s) ==
    LET h == s.hits[s.pix]
        o == -s.rays[s.pix]
        le == IF h.light = Null THEN Zero
              ELSE IF s.tracer = "unidirect_lt1"
                   THEN radiance(h.light, o, h.intersect.normal)
              ELSE IF s.tracer = "bidirect_lt2"
                   THEN projected_radiance(h.light, o, h.intersect.normal)
              ELSE Zero
    IN  [s EXCEPT !.rad[s.pix] = VAdd(s.ret, le), !.pix = s.pix + 1]

\* The top activation returns v: it leaves the stack, and its caller (an
\* activation in "wait", or sample()) has the value in ret.
Return(s, v, why, acc, ps) ==
    LET t == [s EXCEPT !.stack = Pop(s.stack), !.ret = v,
                       !.last = [why |-> why, acc |-> acc, ps |-> ps,
                                 depth |-> Top(s.stack).depth,
                                 draws |-> Top(s.stack).draws]]
    IN  IF Len(s.stack) = 1 THEN finish_pixel(t) ELSE t

\* rng.draw() of the top activation for its Russian roulette gives d; draws
\* lists the numbers the activation has drawn for it.
Draw(s, d) ==
    [s EXCEPT !.stack[Len(s.stack)].draws = Append(@, d),
              !.used = s.used \cup {"rng"}]

\* A recursion that stops after the first bounce.
recurse_once(s, ps, acc, b, x) ==
    LET f == Top(s.stack)
        waiting == [f EXCEPT !.pc = "wait", !.p_survive = ps, !.acc = acc,
                             !.i = b.i, !.dens = b.dens]
    IN  IF f.depth < 1
        THEN {[s EXCEPT !.stack = Append([s.stack EXCEPT ![Len(s.stack)] = waiting],
                                         Frame(f.depth + 1, -b.i, x))]}
        ELSE {}

\* The depth the model follows a tracer's recursion down to: one level past
\* the first Russian roulette of the two unidirectional tracers, so that an
\* activation that survived its draw is seen to call itself.
depth_followed(tr) ==
    IF tr \in {"unidirect", "unidirect_lt1"} THEN MaxDepth + 1 ELSE MaxDepth

\* The top activation calls itself for the hit x of the ray it cast along
\* b.i; the model follows the recursion down to depth depth_followed.
Recurse(s, ps, acc, b, x) ==
    LET f == Top(s.stack)
        waiting == [f EXCEPT !.pc = "wait", !.p_survive = ps, !.acc = acc,
                             !.i = b.i, !.dens = b.dens]
    IN  IF f.depth < depth_followed(s.tracer)
        THEN {[s EXCEPT !.stack = Append([s.stack EXCEPT ![Len(s.stack)] = waiting],
                                         Frame(f.depth + 1, -b.i, x))]}
        ELSE {}

\* sample(): the ray of pixel s.pix; a valid first hit starts the recursion
\* at depth 0.
recursive_sample(s) ==
    LET h == s.hits[s.pix] IN
    IF h.intersect.valid
    THEN {[s EXCEPT !.stack = <<Frame(0, -s.rays[s.pix], h.intersect)>>]}
    ELSE {[s EXCEPT !.pix = s.pix + 1]}

(***************************************************************************)
(* unidirect_path_tracer::sample_indirect_illum                            *)
(***************************************************************************)
unidirect_mutate_depth == 2

\* The body of the top activation once it has survived the roulette (or was
\* too shallow for it), up to its recursive call or its return.
unidirect_body(s, ps) ==
    LET f == Top(s.stack)
        light == obj_light(f.vert.geo)
        light_emission == IF light # Null THEN radiance(light, f.o, f.vert.normal)
                          ELSE Zero
        u == [s EXCEPT !.used = s.used \cup {"rng", "lights", "mats"}]
        v == [u EXCEPT !.used = u.used \cup {"space"}]
    IN  UNION {
          IF b.dens = Zero
          THEN {Return(u, VDiv(light_emission, ps), "absorbed", light_emission, ps)}
          ELSE UNION {
                 IF ~x.valid \/ inner(x.normal, -b.i) <= 0
                 THEN {Return(v, VDiv(light_emission, ps), "escaped", light_emission, ps)}
                 ELSE Recurse(v, ps, light_emission, b, x)
                 : x \in Intersections}
          : b \in BrdfSamples}

\* A unidirectional integrator without Russian roulette.
unidirect_no_roulette(s) == unidirect_body(s, One)

unidirect_sample_indirect_illum(s) ==
    LET f == Top(s.stack) IN
    IF f.depth >= unidirect_mutate_depth
    THEN UNION {
           IF ~VLess(d, Half)
           THEN {Return(Draw(s, d), Zero, "killed", Zero, Half)}
           ELSE unidirect_body(Draw(s, d), Half)
           : d \in Draws}
    ELSE unidirect_body(s, One)

\* The recursive call has returned s.ret to the top activation.
unidirect_resume(s) ==
    LET f == Top(s.stack)
        cos_w == inner(f.vert.normal, f.i)
        indirect == VDiv(VMul(VMul(s.ret, brdf(f.vert, f.o, f.i)), Val(cos_w)), f.dens)
    IN  {Return(s, VDiv(VAdd(f.acc, indirect), f.p_survive), "full", f.acc, f.p_survive)}

(***************************************************************************)
(* unidirect_lt1_path_tracer::sample_indirect_illum, called by sample()    *)
(* with multi_light_samps = 1 and multi_indirect_samps = 1: one light      *)
(* sample, and one turn of the indirect loop.                              *)
(***************************************************************************)
unidirect_lt1_mutate_depth == 2

\* A body that adds the emission of its own vertex to the direct term.
unidirect_lt1_emitting_body(s, ps) ==
    LET f == Top(s.stack)
        light == obj_light(f.vert.geo)
        le == IF light # Null THEN radiance(light, f.o, f.vert.normal) ELSE Zero
        u == [s EXCEPT !.used = s.used \cup {"rng", "lights", "space", "mats"}]
    IN  UNION {
          LET direct == VAdd(le, transport_direct_illum(<<ss>>, f.o, f.vert)) IN
          UNION {
            IF b.dens = Zero
            THEN {Return(u, VDiv(direct, ps), "absorbed", direct, ps)}
            ELSE UNION {
                   IF ~x.valid \/ inner(x.normal, -b.i) <= 0
                   THEN {Return(u, VDiv(direct, ps), "escaped", direct, ps)}
                   ELSE Recurse(u, ps, direct, b, x)
                   : x \in Intersections}
            : b \in BrdfSamples}
          : ss \in ShadowedSamples}

unidirect_lt1_body(s, ps) ==
    LET f == Top(s.stack)
        u == [s EXCEPT !.used = s.used \cup {"rng", "lights", "space", "mats"}]
    IN  UNION {
          LET direct == transport_direct_illum(<<ss>>, f.o, f.vert) IN
          UNION {
            IF b.dens = Zero
            THEN {Return(u, VDiv(VAdd(direct, VDiv(Zero, One)), ps), "absorbed", direct, ps)}
            ELSE UNION {
                   IF ~x.valid \/ inner(x.normal, -b.i) <= 0
                   THEN {Return(u, VDiv(VAdd(direct, VDiv(Zero, One)), ps),
                                "escaped", direct, ps)}
                   ELSE Recurse(u, ps, direct, b, x)
                   : x \in Intersections}
            : b \in BrdfSamples}
          : ss \in ShadowedSamples}

unidirect_lt1_sample_indirect_illum(s) ==
    LET f == Top(s.stack) IN
    IF f.depth >= unidirect_lt1_mutate_depth
    THEN UNION {
           IF ~VLess(d, Half)
           THEN {Return(Draw(s, d), Zero, "killed", Zero, Half)}
           ELSE unidirect_lt1_body(Draw(s, d), Half)
           : d \in Draws}
    ELSE unidirect_lt1_body(s, One)

unidirect_lt1_resume(s) ==
    LET f == Top(s.stack)
        cos_w == inner(f.vert.normal, f.i)
        multi_indirect ==
            VDiv(VMul(VMul(s.ret, brdf(f.vert, f.o, f.i)), Val(cos_w)), f.dens)
    IN  {Return(s, VDiv(VAdd(f.acc, VDiv(multi_indirect, One)), f.p_survive),
                "full", f.acc, f.p_survive)}

(***************************************************************************)
(* bidirect_lt2_path_tracer                                                *)
(***************************************************************************)
bidirect_lt2_mutate_depth == 1

\* join_with_light_paths for the answers of its collaborators: ss the light
\* sample of the direct term and its shadow ray, lp the light picked, em its
\* emission, light_info the hit of the emitted ray, occluded has_intersect's
\* answer for the join segment.
join_with_light_paths(o, poi, cam_path_len, ss, lp, em, light_info, occluded) ==
    LET p1_direct == transport_direct_illum(<<ss>>, o, poi)
        light_illum ==
            VDiv(projected_radiance(lp.light, em.w, em.surface.n),
                 VMul(VMul(lp.mass, em.surface.area_dens), em.solid_angle_dens))
        terminate == light_info
        tray == -em.w
        join == poi.vertex - terminate.vertex
        distance == Abs(join)
        \* join / distance; 0 / 0 is nan, and no comparison with nan holds.
        join_path == IF join > 0 THEN 1 ELSE -1
        cos_w2 == inner(terminate.normal, tray)
        cos_wo == inner(terminate.normal, join_path)
        cos_wi == inner(poi.normal, -join_path)
        f2 == VMul(VMul(light_illum, brdf(terminate, join_path, tray)), Val(cos_w2))
        p2_direct ==
            VMul(VMul(VDiv(VMul(f2, Val(cos_wo)), Val(distance * distance)),
                      brdf(poi, o, -join_path)),
                 Val(cos_wi))
    IN  IF ~light_info.valid THEN Zero
        ELSE IF distance # 0 /\ cos_wo > 0 /\ cos_wi > 0 /\ cos_w2 > 0 /\ ~occluded
             THEN IF cam_path_len = 0
                  THEN VAdd(p1_direct, VMul(Half, p2_direct))
                  ELSE VMul(Half, VAdd(p1_direct, p2_direct))
        ELSE p1_direct

\* Every value join_with_light_paths may return at a vertex.
join_values(o, poi, cam_path_len) ==
    {join_with_light_paths(o, poi, cam_path_len, ss, lp, em, li, occ) :
        ss \in ShadowedSamples, lp \in LightPicks, em \in EmissionSamples,
        li \in Intersections, occ \in BOOLEAN}

bidirect_lt2_body(s, ps) ==
    LET f == Top(s.stack)
        u == [s EXCEPT !.used = s.used \cup {"rng", "lights", "space", "mats"}]
    IN  UNION {
          UNION {
            UNION {
              IF x.valid
              THEN Recurse(u, ps, bidirect, b, x)
              ELSE {Return(u, VDiv(VAdd(bidirect, Zero), ps), "escaped", bidirect, ps)}
              : x \in Intersections}
            : b \in BrdfSamples}
          : bidirect \in join_values(f.o, f.vert, f.depth)}

\* A roulette that spares the first bounce as well.
bidirect_lt2_late_roulette(s) ==
    LET f == Top(s.stack) IN
    IF f.depth >= bidirect_lt2_mutate_depth + 1
    THEN UNION {
           IF ~VLess(d, Half)
           THEN {Return(Draw(s, d), Zero, "killed", Zero, Half)}
           ELSE bidirect_lt2_body(Draw(s, d), Half)
           : d \in Draws}
    ELSE bidirect_lt2_body(s, One)

bidirect_lt2_sample_indirect_illum(s) ==
    LET f == Top(s.stack) IN
    IF f.depth >= bidirect_lt2_mutate_depth
    THEN UNION {
           IF ~VLess(d, Half)
           THEN {Return(Draw(s, d), Zero, "killed", Zero, Half)}
           ELSE bidirect_lt2_body(Draw(s, d), Half)
           : d \in Draws}
    ELSE bidirect_lt2_body(s, One)

bidirect_lt2_resume(s) ==
    LET f == Top(s.stack)
        cos_w == inner(f.vert.normal, f.i)
        r == VDiv(VMul(VMul(s.ret, brdf(f.vert, f.o, f.i)), Val(cos_w)), f.dens)
    IN  IF cos_w < 0
        THEN {Return(s, Zero, "negative_cos", f.acc, f.p_survive)}
        ELSE {Return(s, VDiv(VAdd(f.acc, r), f.p_survive), "full", f.acc, f.p_survive)}

(***************************************************************************)
(* Pathlets and the scratch arrays.  heap[a] is a block of the free store: *)
(* its owner (the call whose new[] made it, Null when free) and its cells, *)
(* each a pathlet and the call that constructed or last assigned it.       *)
(***************************************************************************)
\* A constructor that leaves dens at its default member initializer.
pathlet_with_default_dens(away, vert, light, dens) ==
    [v |-> away, dens |-> Zero, vert |-> vert, light |-> light]

sampled_pathlet(away, vert, light, dens) ==
    [v |-> away, dens |-> dens, vert |-> vert, light |-> light]

\* sampled_pathlet(): the default-constructed element of new sampled_pathlet[n].
default_pathlet == sampled_pathlet(0, intersect_info, Null, Zero)

towards_prev(p) == p.v
towards(p) == -p.v

FreeBlock == [owner |-> Null, cells |-> <<>>]

\* Scratch arrays of static storage: the k-th array is the same for every call.
static_array(h, c, k) == k

\* The address new[] gives call c for its k-th array: the lowest block that
\* is free once the k-1 arrays before it are taken.
RECURSIVE new_array(_, _, _)
new_array(h, c, k) ==
    LET taken == {new_array(h, c, j) : j \in 1..(k - 1)}
        free == {a \in DOMAIN h : h[a].owner = Null /\ a \notin taken}
    IN  CHOOSE a \in free : \A b \in free : a <= b

\* new sampled_pathlet[n] by call c.
NewBlock(c, n) == [owner |-> c, cells |-> [k \in 1..n |-> [p |-> default_pathlet, w |-> c]]]

InRange(h, a, k) == a \in DOMAIN h /\ k + 1 \in 1..Len(h[a].cells)

\* path[k] of the array at a.
Cell(h, a, k) == IF InRange(h, a, k) THEN h[a].cells[k + 1].p ELSE default_pathlet

\* Whether path[k] of the array at a holds what call c itself put there.
Own(h, a, k, c) == InRange(h, a, k) /\ h[a].cells[k + 1].w = c /\ h[a].owner = c

\* path[k] = p by call c.
Assign(h, a, k, p, c) == [h EXCEPT ![a].cells[k + 1] = [p |-> p, w |-> c]]

NoStop == [why |-> "none", at |-> 0]

NewMis ==
    [pc |-> "idle", cam_path |-> Null, light_path |-> Null,
     cam_path_len |-> 0, light_path_len |-> 0,
     depth |-> 0, written |-> {}, stop |-> NoStop, form |-> "none",
     light |-> Null, emission |-> [surface |-> [p |-> 0, n |-> 0, area_dens |-> Zero],
                                   w |-> 0, solid_angle_dens |-> Zero],
     cam_transport |-> <<>>, light_transport |-> <<>>,
     plen |-> 0, cam_plen |-> 0, light_plen |-> 0,
     rad |-> Zero, partition_rad_sum |-> Zero, partition_weight_sum |-> Zero,
     visited |-> <<>>, reads |-> {},
     bounce |-> [i |-> 0, dens |-> Zero, x |-> intersect_info],
     foreign |-> FALSE]

NewCall(c, tr, rays, maxlen) ==
    [id |-> c, tracer |-> tr, max_path_len |-> maxlen, pc |-> "first_hit",
     rays |-> rays, hits |-> <<>>, closest |-> <<>>, rad |-> <<>>, pix |-> 1,
     used |-> {}, probe |-> NoProbe,
     stack |-> <<>>, ret |-> Zero, last |-> NoReturn, mis |-> NewMis]

\* One step of a call to one of the pairs (local state, heap) in S.
HeapStep(c, S) == \E t \in S : call' = [call EXCEPT ![c] = t.s] /\ heap' = t.h

(***************************************************************************)
(* sample_path.  The recursion of lines 73-95 is a tail call: the walk is  *)
(* its depth argument, one step per activation.  written collects the      *)
(* indices the running walk has assigned; stop says why and where it ended.*)
(* bounce keeps what the pathlet written last was made from: the direction *)
(* of the ray, its density and the hit of the ray.                         *)
(***************************************************************************)
\* sampled_path[k] = p.  An index outside the array is undefined behaviour:
\* the call is lost ("ub").
Store(s, h, a, k, p) ==
    IF InRange(h, a, k)
    THEN [s |-> [s EXCEPT !.mis.written = @ \cup {k}], h |-> Assign(h, a, k, p, s.id)]
    ELSE [s |-> [s EXCEPT !.mis.written = @ \cup {k}, !.pc = "ub"], h |-> h]

\* sample_path returns len to bidirect_mis_path_tracer::sample.
walk_return(s, h, len, why) ==
    LET m == [s.mis EXCEPT !.stop = [why |-> why, at |-> len]] IN
    [s |-> [s EXCEPT !.mis =
                IF s.mis.form = "first_hit"
                THEN [m EXCEPT !.cam_path_len = len, !.pc = "illum"]
                ELSE [m EXCEPT !.light_path_len = len, !.pc = "transport"]],
     h |-> h]

\* The array the running walk fills.
walk_array(s) == IF s.mis.form = "first_hit" THEN s.mis.cam_path ELSE s.mis.light_path

\* A cap tested one pathlet late, and one tested one pathlet early.
late_cap(depth, max_depth) == depth > max_depth
early_cap(depth, max_depth) == depth + 1 >= max_depth

\* Whether the activation at depth has reached max_depth.
depth_cap(depth, max_depth) == depth = max_depth

\* sample_path(rng, sampled_path, path_space, mats, depth, max_depth).
sample_path(s, h) ==
    LET a == walk_array(s)
        depth == s.mis.depth
        prev == Cell(h, a, depth - 1)
        u == [s EXCEPT !.used = @ \cup {"rng", "mats"},
                       !.mis.foreign = @ \/ ~Own(h, a, depth - 1, s.id)]
        v == [u EXCEPT !.used = @ \cup {"space"}]
    IN  IF depth_cap(depth, s.max_path_len)
        THEN {walk_return(s, h, depth, "cap")}
        ELSE UNION {
               IF b.dens = Zero
               THEN {walk_return(u, h, depth, "absorbed")}
               ELSE {IF x.valid /\ inner(x.normal, -b.i) > 0
                     THEN LET w == Store(v, h, a, depth,
                                         sampled_pathlet(-b.i, x, Null, b.dens))
                          IN  [s |-> [w.s EXCEPT !.mis.depth = depth + 1,
                                                 !.mis.bounce = [i |-> b.i, dens |-> b.dens,
                                                                 x |-> x]],
                               h |-> w.h]
                     ELSE walk_return(v, h, depth, IF x.valid THEN "backface" ELSE "miss")
                     : x \in Intersections}
               : b \in BrdfSamples}

StartWalk(s, form) ==
    [s EXCEPT !.mis.form = form, !.mis.written = {}, !.mis.stop = NoStop,
              !.mis.depth = 0]

\* Whether the first-hit form returns 0 without writing.
no_first_pathlet(hit, max_depth) == ~hit.intersect.valid \/ max_depth = 0

\* sample_path(rng, sampled_path, r0, hit, path_space, mats, max_depth): the
\* camera walk of pixel s.pix, bootstrapped by the first hit.
sample_path_first_hit(s, h) ==
    LET hit == s.hits[s.pix]
        t == StartWalk(s, "first_hit")
    IN  IF no_first_pathlet(hit, s.max_path_len)
        THEN {walk_return(t, h, 0, "entry")}
        ELSE LET w == Store(t, h, t.mis.cam_path, 0,
                            sampled_pathlet(-s.rays[s.pix], hit.intersect, hit.light, One))
             IN  {[s |-> [w.s EXCEPT !.mis.depth = 1, !.mis.pc = "cam_walk",
                                     !.mis.bounce = [i |-> s.rays[s.pix], dens |-> One,
                                                     x |-> hit.intersect]],
                   h |-> w.h]}

\* bidirect_mis_path_tracer::sample_illum_source.
sample_illum_source(s) ==
    {[s EXCEPT !.mis.light = lp.light,
               !.mis.emission =
                   [em EXCEPT !.surface.area_dens = VMul(em.surface.area_dens, lp.mass)],
               !.mis.pc = "light_entry",
               !.used = @ \cup {"rng", "lights"}] :
        lp \in LightPicks, em \in EmissionSamples}

\* A ray + dens0 form that looks up the emitter of its first hit.
sample_path_dens0_emitter(s, h) ==
    LET t == [StartWalk(s, "dens0") EXCEPT !.used = @ \cup {"space"}]
        w0 == s.mis.emission.w
    IN  {IF ~vert0.valid \/ inner(vert0.normal, -w0) <= 0 \/ s.max_path_len = 0
         THEN walk_return(t, h, 0, "entry")
         ELSE LET w == Store(t, h, t.mis.light_path, 0,
                             sampled_pathlet(-w0, vert0, obj_light(vert0.geo),
                                             s.mis.emission.solid_angle_dens))
              IN  [s |-> [w.s EXCEPT !.mis.depth = 1, !.mis.pc = "light_walk",
                                     !.mis.bounce = [i |-> w0,
                                                     dens |-> s.mis.emission.solid_angle_dens,
                                                     x |-> vert0]],
                   h |-> w.h]
         : vert0 \in Intersections}

\* sample_path(rng, sampled_path, r0, dens0, path_space, mats, max_depth): the
\* light walk, bootstrapped by the emitted ray and its density.
sample_path_dens0(s, h) ==
    LET t == [StartWalk(s, "dens0") EXCEPT !.used = @ \cup {"space"}]
        w0 == s.mis.emission.w
    IN  {IF ~vert0.valid \/ inner(vert0.normal, -w0) <= 0 \/ s.max_path_len = 0
         THEN walk_return(t, h, 0, "entry")
         ELSE LET w == Store(t, h, t.mis.light_path, 0,
                             sampled_pathlet(-w0, vert0, Null,
                                             s.mis.emission.solid_angle_dens))
              IN  [s |-> [w.s EXCEPT !.mis.depth = 1, !.mis.pc = "light_walk",
                                     !.mis.bounce = [i |-> w0,
                                                     dens |-> s.mis.emission.solid_angle_dens,
                                                     x |-> vert0]],
                   h |-> w.h]
         : vert0 \in Intersections}

(***************************************************************************)
(* light_transport_info and transport_all_connectible_subpaths             *)
(***************************************************************************)
projected_brdf(current, next) ==
    VMul(mat_eval(current.vert.geo, current.vert.normal, towards(next),
                  towards_prev(current)),
         Val(inner(current.vert.normal, towards(next))))

\* The adjoint taken in the argument order of projected_brdf.
adjoint_in_brdf_order(current, next) == projected_brdf(current, next)

projected_adjoint_brdf(current, next) ==
    VMul(mat_eval(current.vert.geo, current.vert.normal, towards_prev(current),
                  towards(next)),
         Val(inner(current.vert.normal, towards(next))))

\* m_prefix_transport[k] of light_transport_info<IMPORTANCE>(path at a, len).
RECURSIVE prefix_transport(_, _, _, _)
prefix_transport(h, a, k, IMPORTANCE) ==
    IF k = 0 THEN One
    ELSE VMul(prefix_transport(h, a, k - 1, IMPORTANCE),
              VDiv(IF IMPORTANCE
                   THEN projected_brdf(Cell(h, a, k - 1), Cell(h, a, k))
                   ELSE projected_adjoint_brdf(Cell(h, a, k - 1), Cell(h, a, k)),
                   Cell(h, a, k).dens))

light_transport_info(h, a, len, IMPORTANCE) ==
    [k \in 1..len |-> prefix_transport(h, a, k - 1, IMPORTANCE)]

\* light_transport_info::transport(subpath_len).
transport(info, subpath_len) ==
    IF subpath_len + 1 \in DOMAIN info THEN info[subpath_len + 1] ELSE NaN

\* The arithmetic of unsigned, and static_cast<int>, at the model's width.
Unsigned(x) == x % (2 ^ UnsignedBits)
to_int(x) == IF x >= 2 ^ (UnsignedBits - 1) THEN x - 2 ^ UnsignedBits ELSE x
Min(a, b) == IF a < b THEN a ELSE b

\* A partition whose weight sum starts at one strategy's weight.
begin_partition_weighted(m, plen) ==
    LET cam_plen == Min(Unsigned(plen - 1), m.cam_path_len) IN
    [m EXCEPT !.plen = plen, !.cam_plen = cam_plen,
              !.light_plen = Unsigned(plen - 1 - cam_plen),
              !.partition_rad_sum = Zero, !.partition_weight_sum = One,
              !.visited = <<>>, !.reads = {},
              !.pc = "strategies"]

\* The head of the plen loop: the first strategy of the partition.  visited
\* lists the (cam_plen, light_plen) the while loop has gone through in this
\* partition, reads the elements its last turn read.
begin_partition(m, plen) ==
    LET cam_plen == Min(Unsigned(plen - 1), m.cam_path_len) IN
    [m EXCEPT !.plen = plen, !.cam_plen = cam_plen,
              !.light_plen = Unsigned(plen - 1 - cam_plen),
              !.partition_rad_sum = Zero, !.partition_weight_sum = Zero,
              !.visited = <<>>, !.reads = {},
              !.pc = "strategies"]

\* The next ray of bidirect_mis_path_tracer::sample, rad[i] being v.
mis_pixel_done(s, v) ==
    [s EXCEPT !.rad[s.pix] = v, !.pix = s.pix + 1, !.mis.pc = "idle"]

\* The call of transport_all_connectible_subpaths, up to its plen loop.
transport_enter(s, h) ==
    LET m == s.mis
        own == /\ \A k \in 0..(m.cam_path_len - 1) : Own(h, m.cam_path, k, s.id)
               /\ \A k \in 0..(m.light_path_len - 1) : Own(h, m.light_path, k, s.id)
    IN  IF m.cam_path_len = 0
        THEN {mis_pixel_done(s, Zero)}
        ELSE {[s EXCEPT !.mis =
                 begin_partition(
                    [m EXCEPT !.cam_transport =
                                  light_transport_info(h, m.cam_path, m.cam_path_len, FALSE),
                              !.light_transport =
                                  light_transport_info(h, m.light_path, m.light_path_len, TRUE),
                              !.rad = Zero,
                              !.foreign = @ \/ ~own],
                    1)]}

\* A loop test on the unsigned cam_plen itself, and one that leaves the
\* light length alone.
more_strategies_unsigned(m) == m.cam_plen >= 0 /\ m.light_plen <= m.light_path_len
more_strategies_any_light(m) == to_int(m.cam_plen) >= 0

\* Whether the while loop of a partition goes on.
more_strategies(m) == to_int(m.cam_plen) >= 0 /\ m.light_plen <= m.light_path_len

cur_path_weight == One

\* A weight that every turn of the loop adds.
weight_of_every_turn(m) == cur_path_weight

\* What a turn of the while loop adds to partition_weight_sum.
strategy_weight(m) ==
    IF m.light_plen = 0 /\ m.cam_plen = 0 THEN cur_path_weight
    ELSE IF m.light_plen = 0 THEN cur_path_weight
    ELSE IF m.cam_plen = 0 THEN Zero
    ELSE cur_path_weight

\* What one turn of the while loop adds to the partition's sums: the
\* strategy's radiance and its weight; occluded is has_intersect's answer.
\* reads names the elements the turn reads, as <<array, index>>.
strategy(m, h, occluded) ==
    LET cam0 == Cell(h, m.cam_path, 0)
        light0 == Cell(h, m.light_path, 0)
        cam_join_vert == Cell(h, m.cam_path, m.cam_plen - 1)
        light_join_vert == Cell(h, m.light_path, m.light_plen - 1)
        em == m.emission
    IN  IF m.light_plen = 0 /\ m.cam_plen = 0
        THEN [rad |-> IF cam0.light # Null
                      THEN VMul(cur_path_weight,
                                radiance(cam0.light, towards_prev(cam0), cam0.vert.normal))
                      ELSE Zero,
              weight |-> strategy_weight(m),
              reads |-> {<<"cam_path", 0>>}]
        ELSE IF m.light_plen = 0
        THEN LET transported_importance ==
                     VDiv(transport_illum_source(m.light, em.surface.p, em.surface.n,
                                                 cam_join_vert.vert,
                                                 towards_prev(cam_join_vert), occluded),
                          em.surface.area_dens)
                 path_rad ==
                     VDiv(VMul(transported_importance,
                               transport(m.cam_transport, m.cam_plen - 1)),
                          cam0.dens)
             IN  [rad |-> VMul(cur_path_weight, path_rad),
                  weight |-> strategy_weight(m),
                  reads |-> {<<"cam_path", m.cam_plen - 1>>,
                             <<"cam_transport", m.cam_plen - 1>>, <<"cam_path", 0>>}]
        ELSE IF m.cam_plen = 0
        THEN [rad |-> Zero, weight |-> strategy_weight(m), reads |-> {}]
        ELSE LET join == cam_join_vert.vert.vertex - light_join_vert.vert.vertex
                 join_distance == Abs(join)
                 join_path == IF join > 0 THEN 1 ELSE -1
                 cos_wo == inner(light_join_vert.vert.normal, join_path)
                 cos_wi == inner(cam_join_vert.vert.normal, -join_path)
                 light_emission ==
                     VDiv(projected_radiance(m.light, towards(light0), em.surface.n),
                          VMul(light0.dens, em.surface.area_dens))
                 light_subpath_importance ==
                     VMul(light_emission, transport(m.light_transport, m.light_plen - 1))
                 to_area_differential ==
                     VDiv(Val(cos_wi * cos_wo), Val(join_distance * join_distance))
                 light_join_weight ==
                     brdf(light_join_vert.vert, join_path, towards_prev(light_join_vert))
                 cam_join_weight ==
                     brdf(cam_join_vert.vert, towards_prev(cam_join_vert), -join_path)
                 transported_importance ==
                     VMul(VMul(VMul(light_subpath_importance, light_join_weight),
                               cam_join_weight),
                          to_area_differential)
                 cam_subpath_radiance ==
                     VDiv(VMul(transported_importance,
                               transport(m.cam_transport, m.cam_plen - 1)),
                          cam0.dens)
                 connected == join_distance # 0 /\ cos_wo > 0 /\ cos_wi > 0 /\ ~occluded
             IN  [rad |-> IF connected
                          THEN VMul(cur_path_weight, cam_subpath_radiance)
                          ELSE Zero,
                  weight |-> strategy_weight(m),
                  reads |-> {<<"light_path", m.light_plen - 1>>,
                             <<"cam_path", m.cam_plen - 1>>}
                            \cup (IF connected
                                  THEN {<<"light_path", 0>>,
                                        <<"light_transport", m.light_plen - 1>>,
                                        <<"cam_transport", m.cam_plen - 1>>,
                                        <<"cam_path", 0>>}
                                  ELSE {})]

\* One turn of the while loop of lines 376-445.
transport_strategy(s, h) ==
    LET m == s.mis
        reads == {<<m.cam_path, 0>>}
                 \cup (IF m.cam_plen > 0 THEN {<<m.cam_path, m.cam_plen - 1>>} ELSE {})
                 \cup (IF m.cam_plen > 0 /\ m.light_plen > 0
                       THEN {<<m.light_path, 0>>, <<m.light_path, m.light_plen - 1>>}
                       ELSE {})
        own == \A r \in reads : Own(h, r[1], r[2], s.id)
    IN  {LET x == strategy(m, h, occluded) IN
         [s EXCEPT !.mis.partition_rad_sum = VAdd(@, x.rad),
                   !.mis.partition_weight_sum = VAdd(@, x.weight),
                   !.mis.light_plen = Unsigned(m.light_plen + 1),
                   !.mis.cam_plen = Unsigned(m.cam_plen - 1),
                   !.mis.visited = Append(@, <<m.cam_plen, m.light_plen>>),
                   !.mis.reads = x.reads,
                   !.mis.foreign = @ \/ ~own,
                   !.used = @ \cup {"space", "mats", "lights"}]
         : occluded \in BOOLEAN}

\* The end of a partition: its radiance joins the sum, and the plen loop
\* goes on or transport_all_connectible_subpaths returns.
transport_partition_end(s) ==
    LET m == s.mis
        rad == IF VLess(Zero, m.partition_weight_sum)
               THEN VAdd(m.rad, VDiv(m.partition_rad_sum, m.partition_weight_sum))
               ELSE m.rad
    IN  IF m.plen + 1 <= m.cam_path_len + m.light_path_len + 1
        THEN {[s EXCEPT !.mis = begin_partition([m EXCEPT !.rad = rad], m.plen + 1)]}
        ELSE {mis_pixel_done([s EXCEPT !.mis.rad = rad], rad)}

(***************************************************************************)
(* The calls' steps.                                                       *)
(***************************************************************************)
Calls == DOMAIN call

AtPixel(s, tr) == s.pc = "pixel" /\ s.tracer = tr /\ s.pix <= Len(s.rays)

\* The head of sample(): the result vector, and bidirect_mis's two scratch
\* arrays of m_max_path_len pathlets.
sample_enter(c) ==
    LET s == call[c]
        t == [s EXCEPT !.rad = [i \in 1..Len(s.rays) |-> Zero], !.pc = "pixel",
                       !.used = IF s.tracer = "position" THEN @ \cup {"aabb"} ELSE @]
        a1 == new_array(heap, c, 1)
        a2 == new_array(heap, c, 2)
    IN  /\ s.pc = "enter"
        /\ IF s.tracer = "bidirect_mis"
           THEN /\ call' = [call EXCEPT ![c] = [t EXCEPT !.mis.cam_path = a1,
                                                        !.mis.light_path = a2]]
                /\ heap' = [heap EXCEPT ![a1] = NewBlock(c, s.max_path_len),
                                        ![a2] = NewBlock(c, s.max_path_len)]
           ELSE call' = [call EXCEPT ![c] = t] /\ UNCHANGED heap

\* return rad: the scratch arrays go with their unique_ptr.
sample_return(c) ==
    LET s == call[c] IN
    /\ s.pc = "pixel" /\ s.pix > Len(s.rays)
    /\ call' = [call EXCEPT ![c] = [s EXCEPT !.pc = "done", !.mis.cam_path = Null,
                                             !.mis.light_path = Null]]
    /\ heap' = [a \in DOMAIN heap |->
                   IF s.tracer = "bidirect_mis" /\ a \in {s.mis.cam_path, s.mis.light_path}
                   THEN FreeBlock ELSE heap[a]]

PositionPixel(c) ==
    AtPixel(call[c], "position") /\ Step(c, position_tracer_sample(call[c]))

NormalPixel(c) ==
    AtPixel(call[c], "normal") /\ Step(c, normal_tracer_sample(call[c]))

DirectPixel(c) ==
    AtPixel(call[c], "direct") /\ Step(c, direct_path_tracer_sample(call[c]))

\* transport_direct_illum on its own, for every number of light samples.
DirectIllum(c) ==
    /\ AtPixel(call[c], "direct")
    /\ call[c].hits[call[c].pix].intersect.valid
    /\ call[c].probe.pix # call[c].pix
    /\ \E n \in 1..MaxLightSamps : Step(c, direct_illum_probe(call[c], n))

RecursiveTracers == {"unidirect", "unidirect_lt1", "bidirect_lt2"}

RecursivePixel(c) ==
    /\ \E tr \in RecursiveTracers : AtPixel(call[c], tr)
    /\ call[c].stack = <<>>
    /\ Step(c, recursive_sample(call[c]))

Running(s, tr, pc) == s.tracer = tr /\ s.stack # <<>> /\ Top(s.stack).pc = pc

UnidirectCall(c) ==
    /\ Running(call[c], "unidirect", "enter")
    /\ Step(c, unidirect_sample_indirect_illum(call[c]))

UnidirectResume(c) ==
    Running(call[c], "unidirect", "wait") /\ Step(c, unidirect_resume(call[c]))

UnidirectLt1Call(c) ==
    /\ Running(call[c], "unidirect_lt1", "enter")
    /\ Step(c, unidirect_lt1_sample_indirect_illum(call[c]))

UnidirectLt1Resume(c) ==
    Running(call[c], "unidirect_lt1", "wait") /\ Step(c, unidirect_lt1_resume(call[c]))

BidirectLt2Call(c) ==
    /\ Running(call[c], "bidirect_lt2", "enter")
    /\ Step(c, bidirect_lt2_sample_indirect_illum(call[c]))

BidirectLt2Resume(c) ==
    Running(call[c], "bidirect_lt2", "wait") /\ Step(c, bidirect_lt2_resume(call[c]))

MisAt(s, pc) == s.pc = "pixel" /\ s.tracer = "bidirect_mis" /\ s.mis.pc = pc

MisCamPath(c) ==
    /\ MisAt(call[c], "idle") /\ call[c].pix <= Len(call[c].rays)
    /\ HeapStep(c, sample_path_first_hit(call[c], heap))

MisWalk(c) ==
    /\ MisAt(call[c], "cam_walk") \/ MisAt(call[c], "light_walk")
    /\ HeapStep(c, sample_path(call[c], heap))

MisIllumSource(c) ==
    MisAt(call[c], "illum") /\ Step(c, sample_illum_source(call[c]))

MisLightPath(c) ==
    MisAt(call[c], "light_entry") /\ HeapStep(c, sample_path_dens0(call[c], heap))

MisTransport(c) ==
    MisAt(call[c], "transport") /\ Step(c, transport_enter(call[c], heap))

MisStrategy(c) ==
    /\ MisAt(call[c], "strategies") /\ more_strategies(call[c].mis)
    /\ Step(c, transport_strategy(call[c], heap))

MisPartitionEnd(c) ==
    /\ MisAt(call[c], "strategies") /\ ~more_strategies(call[c].mis)
    /\ Step(c, transport_partition_end(call[c]))

FirstHit == \E c \in Calls : compute_first_hit(c)
Enter == \E c \in Calls : sample_enter(c)
Leave == \E c \in Calls : sample_return(c)
Position == \E c \in Calls : PositionPixel(c)
Normal == \E c \in Calls : NormalPixel(c)
Direct == \E c \in Calls : DirectPixel(c)
DirectProbe == \E c \in Calls : DirectIllum(c)
Recursive == \E c \in Calls : RecursivePixel(c)
Unidirect == \E c \in Calls : UnidirectCall(c)
UnidirectBack == \E c \in Calls : UnidirectResume(c)
UnidirectLt1 == \E c \in Calls : UnidirectLt1Call(c)
UnidirectLt1Back == \E c \in Calls : UnidirectLt1Resume(c)
BidirectLt2 == \E c \in Calls : BidirectLt2Call(c)
BidirectLt2Back == \E c \in Calls : BidirectLt2Resume(c)
CamPath == \E c \in Calls : MisCamPath(c)
Walk == \E c \in Calls : MisWalk(c)
IllumSource == \E c \in Calls : MisIllumSource(c)
LightPath == \E c \in Calls : MisLightPath(c)
Transport == \E c \in Calls : MisTransport(c)
Strategy == \E c \in Calls : MisStrategy(c)
PartitionEnd == \E c \in Calls : MisPartitionEnd(c)

MisNext ==
    \/ FirstHit \/ Enter \/ Leave
    \/ CamPath \/ Walk \/ IllumSource \/ LightPath
    \/ Transport \/ Strategy \/ PartitionEnd

Next ==
    \/ MisNext
    \/ Position \/ Normal \/ Direct
    \/ Recursive
    \/ Unidirect \/ UnidirectBack
    \/ UnidirectLt1 \/ UnidirectLt1Back
    \/ BidirectLt2 \/ BidirectLt2Back

\* m_max_path_len: a member of bidirect_mis_path_tracer only.
MaxPathLens(tr) == IF tr = "bidirect_mis" THEN 0..MaxLen ELSE {0}

\* One call of one integrator on one vector of rays.
Init ==
    /\ \E tr \in Tracers : \E rays \in RayVectors : \E n \in MaxPathLens(tr) :
          call = [c \in {1} |-> NewCall(c, tr, rays, n)]
    /\ heap = [a \in 1..2 |-> FreeBlock]

Spec == Init /\ [][Next]_vars

(***************************************************************************)
(* bidirect_mis alone.                                                     *)
(***************************************************************************)
OneCall(trs) ==
    /\ \E tr \in trs : \E rays \in RayVectors : \E n \in MaxPathLens(tr) :
          call = [c \in {1} |-> NewCall(c, tr, rays, n)]
    /\ heap = [a \in 1..2 |-> FreeBlock]

InitMis == OneCall({"bidirect_mis"})

SpecMis == InitMis /\ [][MisNext]_vars

(***************************************************************************)
(* The direct tracer, and transport_direct_illum applied to 1..            *)
(* MaxLightSamps light samples.                                            *)
(***************************************************************************)
InitDirect == OneCall({"direct"})

NextDirect == FirstHit \/ Enter \/ Leave \/ Direct \/ DirectProbe

SpecDirect == InitDirect /\ [][NextDirect]_vars

(***************************************************************************)
(* Two runs of the position or the normal tracer on the same rays.         *)
(***************************************************************************)
SimpleTracers == {"position", "normal"}

InitRerun ==
    /\ \E tr \in SimpleTracers : \E rays \in RayVectors :
          call = [c \in {1, 2} |-> NewCall(c, tr, rays, 0)]
    /\ heap = [a \in 1..2 |-> FreeBlock]

NextRerun == FirstHit \/ Enter \/ Leave \/ Position \/ Normal

SpecRerun == InitRerun /\ [][NextRerun]_vars

(***************************************************************************)
(* Two threads, each in bidirect_mis_path_tracer::sample with its own rng  *)
(* and its own rays (the second thread's are the first's reversed), their  *)
(* steps interleaved.                                                      *)
(***************************************************************************)
InitThreads ==
    /\ \E r1 \in RayVectors :
          call = [c \in {1, 2} |->
                     NewCall(c, "bidirect_mis",
                             IF c = 1 THEN r1 ELSE [i \in DOMAIN r1 |-> -r1[i]],
                             ThreadLen)]
    /\ heap = [a \in 1..4 |-> FreeBlock]

SpecThreads == InitThreads /\ [][MisNext]_vars

(***************************************************************************)
(* join_with_light_paths on its own: one call per behaviour, its arguments *)
(* and the answers of its collaborators drawn at the start.                *)
(***************************************************************************)
InitJoin ==
    /\ heap = <<>>
    /\ \E o \in Dirs, poi \in Intersections, cam_path_len \in 0..MaxDepth,
          ss \in ShadowedSamples, lp \in LightPicks, em \in EmissionSamples,
          light_info \in Intersections, occluded \in BOOLEAN :
          /\ poi.valid
          /\ call = [c \in {1} |->
                       [pc |-> "join", o |-> o, poi |-> poi,
                        cam_path_len |-> cam_path_len, ss |-> ss, lp |-> lp, em |-> em,
                        light_info |-> light_info, occluded |-> occluded,
                        ret |-> Zero]]

\* The call of join_with_light_paths and its return.
JoinCall(c) ==
    LET s == call[c] IN
    /\ s.pc = "join"
    /\ Step(c, {[s EXCEPT !.pc = "joined",
                          !.ret = join_with_light_paths(s.o, s.poi, s.cam_path_len, s.ss,
                                                        s.lp, s.em, s.light_info,
                                                        s.occluded)]})

Join == \E c \in Calls : JoinCall(c)

SpecJoin == InitJoin /\ [][Join]_vars

(***************************************************************************)
(* The two unidirectional integrators alone.  A call that can take a step  *)
(* takes one: the thread in sample() keeps running.                        *)
(***************************************************************************)
InitUnidirect == OneCall({"unidirect", "unidirect_lt1"})

NextUnidirect ==
    \/ FirstHit \/ Enter \/ Leave \/ Recursive
    \/ Unidirect \/ UnidirectBack
    \/ UnidirectLt1 \/ UnidirectLt1Back

SpecUnidirect == InitUnidirect /\ [][NextUnidirect]_vars /\ WF_vars(NextUnidirect)

(***************************************************************************)
(* if_obj: the parent pointer and the children set (obj.cpp).  heap[o] is  *)
(* the object o; call[1] records the last member call and what it          *)
(* returned.                                                               *)
(***************************************************************************)
Objs == 1..MaxObjs

\* if_obj::if_obj(obj_id_t): no parent; the children set starts empty.
if_obj == [m_parent |-> Null, m_children |-> {}]

NoMemberCall == [op |-> "none", self |-> Null, child |-> Null, ret |-> FALSE, had |-> FALSE]

\* this->add_child(child) on the objects h: the objects afterwards and the
\* value returned.
add_child(h, this, child) ==
    IF child \notin h[this].m_children
    THEN [objs |-> [[h EXCEPT ![child].m_parent = this]
                       EXCEPT ![this].m_children = @ \cup {child}],
          ret |-> TRUE]
    ELSE [objs |-> h, ret |-> FALSE]

\* this->remove_child(child).
remove_child(h, this, child) ==
    IF child \in h[this].m_children
    THEN [objs |-> [[h EXCEPT ![child].m_parent = Null]
                       EXCEPT ![this].m_children = @ \ {child}],
          ret |-> TRUE]
    ELSE [objs |-> h, ret |-> FALSE]

MemberCall(op, this, child, r) ==
    /\ heap' = r.objs
    /\ call' = [call EXCEPT ![1] = [op |-> op, self |-> this, child |-> child,
                                    ret |-> r.ret,
                                    had |-> child \in heap[this].m_children]]

AddChild ==
    \E this \in Objs, child \in Objs :
        MemberCall("add_child", this, child, add_child(heap, this, child))

RemoveChild ==
    \E this \in Objs, child \in Objs :
        MemberCall("remove_child", this, child, remove_child(heap, this, child))

InitObj ==
    /\ call = [c \in {1} |-> NoMemberCall]
    /\ heap = [o \in Objs |-> if_obj]

NextObj == AddChild \/ RemoveChild

SpecObj == InitObj /\ [][NextObj]_vars

(***************************************************************************)
(* next_obj_id (obj.cpp): heap holds the two statics, and the ids returned *)
(* so far in the order of the returns; call[t] is thread t inside          *)
(* if_obj::if_obj().  e8util::lock and e8util::unlock are those of a       *)
(* mutex: lock waits until no thread holds it.                             *)
(***************************************************************************)
first_obj_id == 101

Minters == 1..MaxMinters

\* e8util::lock(m) can return: no thread holds m.
lock_free(m) == m = Null

Minter == [pc |-> "idle", read |-> Null, next_id |-> Null, made |-> 0]

InitIds ==
    /\ call = [t \in Minters |-> Minter]
    /\ heap = [g_obj_id_counter |-> first_obj_id, g_obj_id_counter_mutex |-> Null,
               returned |-> <<>>]

\* A next_obj_id that goes on to the counter without taking the mutex.
IdNoLock(t) ==
    /\ call[t].pc = "idle" /\ call[t].made < MaxMinted
    /\ call' = [call EXCEPT ![t].pc = "locked"]
    /\ UNCHANGED heap

\* e8util::lock(g_obj_id_counter_mutex).
IdLock(t) ==
    /\ call[t].pc = "idle" /\ call[t].made < MaxMinted
    /\ lock_free(heap.g_obj_id_counter_mutex)
    /\ heap' = [heap EXCEPT !.g_obj_id_counter_mutex = t]
    /\ call' = [call EXCEPT ![t].pc = "locked"]

\* next_id = g_obj_id_counter ++: the read of the counter ...
IdRead(t) ==
    /\ call[t].pc = "locked"
    /\ call' = [call EXCEPT ![t].pc = "read", ![t].read = heap.g_obj_id_counter]
    /\ UNCHANGED heap

\* ... and the write of the incremented value; next_id is the value read.
IdIncrement(t) ==
    /\ call[t].pc = "read"
    /\ heap' = [heap EXCEPT !.g_obj_id_counter = call[t].read + 1]
    /\ call' = [call EXCEPT ![t].pc = "written", ![t].next_id = call[t].read]

\* e8util::unlock(g_obj_id_counter_mutex).
IdUnlock(t) ==
    /\ call[t].pc = "written"
    /\ heap' = [heap EXCEPT !.g_obj_id_counter_mutex = Null]
    /\ call' = [call EXCEPT ![t].pc = "unlocked"]

\* return next_id: the id of the object under construction.
IdReturn(t) ==
    /\ call[t].pc = "unlocked"
    /\ heap' = [heap EXCEPT !.returned = Append(@, call[t].next_id)]
    /\ call' = [call EXCEPT ![t] = [Minter EXCEPT !.made = call[t].made + 1]]

next_obj_id(t) ==
    \/ IdLock(t) \/ IdRead(t) \/ IdIncrement(t) \/ IdUnlock(t) \/ IdReturn(t)

NextIds == \E t \in Minters : next_obj_id(t)

SpecIds == InitIds /\ [][NextIds]_vars

(***************************************************************************)
(* ol_image_renderer::render (renderer.cpp).  heap is the renderer; call[1] *)
(* holds the compositor's pixels and the history of the calls: renders     *)
(* counts them, since counts those from the latest call that found the     *)
(* projection or the size changed, and sums adds up the estimates of those *)
(* calls.  The constructor sets m_pt only: the cached projection and size  *)
(* and m_samps start with any value.                                       *)
(***************************************************************************)
n_samples == 5

\* cam->projection(): the matrices told apart by operator !=.
Projections == {1, 2}
Widths == 0..MaxWidth
Heights == {1, 2}

\* What m_pt->sample returns for n pixels.
Estimates(n) == [1..n -> {Zero, One}]

\* The reset that forgets to clear the sample count.
reset_keeping_samps(r, proj, w, h) ==
    [r EXCEPT !.m_t = proj, !.m_w = w, !.m_h = h,
              !.m_rad = [p \in 1..(w * h) |-> Zero]]

\* Lines 28-39: cache the projection and the size, resize the accumulator
\* and clear it and the sample count.
reset(r, proj, w, h) ==
    [r EXCEPT !.m_t = proj, !.m_w = w, !.m_h = h,
              !.m_rad = [p \in 1..(w * h) |-> Zero], !.m_samps = 0]

\* Lines 41-52: add the estimate, and write the mean to the compositor.
accumulate(r, estimate) ==
    LET samps == r.m_samps + n_samples
        pr == VDiv(One, Val(samps))
        rad == [p \in 1..(r.m_w * r.m_h) |-> VAdd(r.m_rad[p], estimate[p])]
    IN  [obj |-> [r EXCEPT !.m_samps = samps, !.m_rad = rad],
         image |-> [p \in 1..(r.m_w * r.m_h) |-> VMul(pr, rad[p])]]

\* render(scene, cam, compositor) with cam->projection() = proj and a
\* compositor of w x h pixels.
render(r, proj, w, h, estimate) ==
    IF proj # r.m_t \/ w # r.m_w \/ h # r.m_h
    THEN accumulate(reset(r, proj, w, h), estimate)
    ELSE accumulate(r, estimate)

NoRenders == [pc |-> "constructed", renders |-> 0, since |-> 0, sums |-> <<>>,
              image |-> <<>>]

InitRender ==
    /\ call = [c \in {1} |-> NoRenders]
    /\ \E t \in Projections, w \in Widths, h \in Heights, n \in {0, 7} :
          heap = [m_t |-> t, m_w |-> w, m_h |-> h, m_samps |-> n, m_rad |-> <<>>]

\* A call that finds nothing changed on a renderer never reset reads the
\* accumulator beyond its end.
RenderBeyond ==
    \E proj \in Projections, w \in Widths, h \in Heights :
        /\ call[1].pc # "beyond" /\ call[1].renders < MaxRenders
        /\ proj = heap.m_t /\ w = heap.m_w /\ h = heap.m_h
        /\ Len(heap.m_rad) < w * h
        /\ call' = [call EXCEPT ![1].pc = "beyond"]
        /\ UNCHANGED heap

Render ==
    \E proj \in Projections, w \in Widths, h \in Heights :
        \E estimate \in Estimates(w * h) :
            LET changed == proj # heap.m_t \/ w # heap.m_w \/ h # heap.m_h
                r == render(heap, proj, w, h, estimate)
                m == call[1]
            IN  /\ m.pc # "beyond" /\ m.renders < MaxRenders
                /\ changed \/ Len(heap.m_rad) >= w * h
                /\ heap' = r.obj
                /\ call' = [call EXCEPT ![1] =
                      [pc |-> "rendered", renders |-> m.renders + 1,
                       since |-> IF changed THEN 1
                                 ELSE IF m.since = 0 THEN 0 ELSE m.since + 1,
                       sums |-> IF changed \/ m.since = 0 THEN estimate
                                ELSE [p \in 1..(w * h) |-> VAdd(m.sums[p], estimate[p])],
                       image |-> r.image]]

NextRender == Render \/ RenderBeyond

SpecRender == InitRender /\ [][NextRender]_vars

(***************************************************************************)
(* Properties.                                                             *)
(***************************************************************************)

Returned(s) == s.mis.stop.why # "none"

Entering(s) ==
    (MisAt(s, "idle") /\ s.pix <= Len(s.rays)) \/ MisAt(s, "light_entry")

Walking(s) == MisAt(s, "cam_walk") \/ MisAt(s, "light_walk")

\* C1 (SpecMis): both entry forms of sample_path return a length L in
\* 0..MAX_LEN having written exactly the pathlets 0..L-1, and no index at or
\* beyond MAX_LEN is ever written; the walk returns in finite steps: it can
\* always take its next step, and a step that does not return raises the
\* depth by one, which never passes MAX_LEN.
C1_Lengths ==
    \A c \in Calls :
        LET s == call[c] IN
        /\ s.pc # "ub"
        /\ s.mis.written \subseteq 0..(s.max_path_len - 1)
        /\ Entering(s) => ENABLED (MisCamPath(c) \/ MisLightPath(c))
        /\ Walking(s) => /\ ENABLED MisWalk(c)
                         /\ s.mis.depth \in 1..s.max_path_len
                         /\ s.mis.written = 0..(s.mis.depth - 1)
        /\ Returned(s) => /\ s.mis.stop.at \in 0..s.max_path_len
                          /\ s.mis.written = 0..(s.mis.stop.at - 1)
                          /\ s.pc = "pixel" =>
                                 \A k \in s.mis.written : Own(heap, walk_array(s), k, c)

C1_Progress ==
    \A c \in Calls :
        LET s == call[c]
            t == call'[c]
        IN  /\ (Entering(s) /\ t # s) =>
                   Returned(t) \/ (Walking(t) /\ t.mis.depth = 1)
            /\ (Walking(s) /\ t # s) =>
                   Returned(t) \/ (Walking(t) /\ t.mis.depth = s.mis.depth + 1)

C1_SamplePathReturns == []C1_Lengths /\ [][C1_Progress]_vars

\* A light walk (ray + dens0 form) that has filled its whole array.
C1_Witness ==
    \E c \in Calls :
        /\ call[c].mis.form = "dens0" /\ call[c].mis.stop.why = "cap"
        /\ call[c].max_path_len >= 2
        /\ call[c].mis.stop.at = call[c].max_path_len

C3_AbsorptionStops ==
    \A c \in Calls :
        LET s == call[c] IN
        /\ \A k \in DOMAIN s.stack :
               s.stack[k].pc = "wait" => s.stack[k].dens # Zero
        /\ ~IsNaN(s.ret)
        /\ s.last.why = "absorbed" => s.ret = VDiv(s.last.acc, s.last.ps)
        /\ s.mis.stop.why = "absorbed" => s.mis.written = 0..(s.mis.stop.at - 1)

\* C4 (Spec): a recursive integrator never recurses into a miss or a back
\* face, returns its accumulated terms over p_survive when the bounce ray
\* escapes, and never returns 0 in place of a term it has computed.
C4_EscapeKeepsTerms ==
    \A c \in Calls :
        LET s == call[c] IN
        /\ \A k \in 2..Len(s.stack) :
               /\ s.stack[k].vert.valid
               /\ inner(s.stack[k].vert.normal, s.stack[k].o) > 0
        /\ s.last.why = "escaped" => s.ret = VDiv(s.last.acc, s.last.ps)
        /\ (s.last.why \notin {"none", "killed"} /\ s.last.acc # Zero) => s.ret # Zero

\* C5 (SpecMis): a walk that has emitted pathlet 0 stops at the first bounce
\* k >= 1 with density 0, a miss, a back face or k = MAX_LEN and returns k:
\* the length is below MAX_LEN exactly when absorption, miss or back face
\* ended it, and every pathlet emitted before k has a non-zero density and a
\* front-facing valid vertex.
C5_WalkStops ==
    \A c \in Calls :
        LET s == call[c]
            m == s.mis
        IN  /\ \A k \in m.written :
                   (k >= 1 /\ s.pc = "pixel") =>
                       LET p == Cell(heap, walk_array(s), k) IN
                       /\ p.dens # Zero /\ p.vert.valid
                       /\ inner(p.vert.normal, towards_prev(p)) > 0
            /\ m.stop.why \notin {"none", "entry"} =>
                   /\ m.stop.at >= 1
                   /\ m.stop.at < s.max_path_len
                          <=> m.stop.why \in {"absorbed", "miss", "backface"}
                   /\ m.stop.at = s.max_path_len <=> m.stop.why = "cap"
                   /\ m.written = 0..(m.stop.at - 1)

\* A camera walk cut short by a back face at bounce 1.
C5_Witness ==
    \E c \in Calls :
        /\ call[c].mis.stop = [why |-> "backface", at |-> 1]
        /\ call[c].max_path_len >= 2 /\ call[c].mis.form = "first_hit"

\* C6 (Spec): for every ray, the first hit's intersect is valid exactly when
\* the closest intersection is valid and front-facing (and then it is that
\* intersection), and its light is non-null exactly when the intersect is
\* valid and its geometry has an emitter (and then it is that emitter).
C6_FirstHit ==
    \A c \in Calls :
        LET s == call[c] IN
        s.pc # "first_hit" =>
            \A i \in 1..Len(s.rays) :
                LET x == s.closest[i]
                    h == s.hits[i]
                    front == inner(x.normal, -s.rays[i]) > 0
                IN  /\ h.intersect.valid <=> (x.valid /\ front)
                    /\ h.intersect.valid => h.intersect = x
                    /\ h.light # Null <=> (h.intersect.valid /\ obj_light(x.geo) # Null)
                    /\ h.light # Null => h.light = obj_light(x.geo)
                    /\ (~x.valid \/ ~front) => h.light = Null

\* An emitter seen from behind: the hit carries no light.
C6_Witness ==
    \E c \in Calls :
        /\ call[c].pc = "enter" /\ Len(call[c].rays) >= 1
        /\ call[c].closest[1].valid /\ obj_light(call[c].closest[1].geo) # Null
        /\ inner(call[c].closest[1].normal, -call[c].rays[1]) <= 0
        /\ call[c].hits[1].light = Null

AllOccluded(samps) == \A k \in DOMAIN samps : samps[k].occluded

\* C7 (SpecDirect): when every shadow ray is occluded transport_direct_illum
\* returns exactly 0, whatever the number of light samples, and the direct
\* tracer writes exactly 0 for a valid first hit that is not on an emitter.
C7_OccludedIsBlack ==
    \A c \in Calls :
        LET s == call[c]
            p == s.probe
        IN  (p.by # "none" /\ AllOccluded(p.samps)) =>
                /\ p.val = Zero
                /\ (p.by = "sample" /\ s.hits[p.pix].light = Null) => s.rad[p.pix] = Zero

\* Two occluded samples of a light that faces the first hit.
C7_Witness ==
    \E c \in Calls :
        LET s == call[c]
            p == s.probe
        IN  /\ p.by = "probe" /\ Len(p.samps) >= 2 /\ AllOccluded(p.samps)
            /\ \A k \in DOMAIN p.samps :
                   transport_unshadowed(p.samps[k].ls.light, p.samps[k].ls.surface.p,
                                        p.samps[k].ls.surface.n, s.hits[p.pix].intersect,
                                        -s.rays[p.pix], TRUE) # Zero

Unidirectional == {"unidirect", "unidirect_lt1"}

mutate_depth(tr) ==
    IF tr = "unidirect" THEN unidirect_mutate_depth
    ELSE IF tr = "unidirect_lt1" THEN unidirect_lt1_mutate_depth
    ELSE bidirect_lt2_mutate_depth

\* C8 as stated (Spec): the stack depth of the unidirectional integrators'
\* sample_indirect_illum never exceeds the maximum path length.
C8_StackWithinMaxPathLen ==
    \A c \in Calls :
        call[c].tracer \in Unidirectional => Len(call[c].stack) <= MaxLen

\* C8 amended (Spec): the unidirectional integrators have no depth cap.  The
\* stack holds one activation per depth 0, 1, 2, ...; an activation recurses
\* whenever its BRDF sample has a non-zero density and its bounce ray hits a
\* front face, and from mutate_depth on it gets that far only with
\* p_survive = 1/2, past the Russian roulette.
C8_StackFollowsBounces ==
    \A c \in Calls :
        LET s == call[c] IN
        s.tracer \in Unidirectional =>
            /\ \A k \in DOMAIN s.stack :
                   /\ s.stack[k].depth = k - 1
                   /\ k < Len(s.stack) =>
                          /\ s.stack[k].pc = "wait" /\ s.stack[k].dens # Zero
                          /\ s.stack[k].p_survive =
                                 IF k - 1 >= mutate_depth(s.tracer) THEN Half ELSE One
                          /\ s.stack[k + 1].vert.valid
                          /\ inner(s.stack[k + 1].vert.normal, s.stack[k + 1].o) > 0
            /\ s.last.why \in {"absorbed", "escaped", "full"} =>
                   s.last.ps = IF s.last.depth >= mutate_depth(s.tracer) THEN Half ELSE One

\* A stack deeper than the maximum path length, its top activation at a
\* depth where the roulette is played.
C8_Witness ==
    \E c \in Calls :
        /\ call[c].tracer = "unidirect" /\ Len(call[c].stack) > MaxLen
        /\ Top(call[c].stack).depth >= unidirect_mutate_depth
        /\ Top(call[c].stack).depth = Len(call[c].stack) - 1

Done(s) == s.pc = "done"

Arrays(s) == {s.mis.cam_path, s.mis.light_path}

\* C10 (SpecThreads): two concurrent calls share no mutable state.  Each has
\* its own two scratch arrays from entry to return, reads there only what it
\* wrote itself, and has released them when it is done; a step of one call
\* changes neither the other call nor the other call's arrays.
C10_OwnState ==
    \A c \in Calls :
        LET s == call[c] IN
        /\ s.pc # "ub" /\ ~s.mis.foreign
        /\ s.pc = "pixel" =>
               /\ s.mis.cam_path # s.mis.light_path
               /\ \A a \in Arrays(s) : a \in DOMAIN heap /\ heap[a].owner = c
               /\ \A d \in Calls \ {c} : Arrays(s) \cap Arrays(call[d]) = {}
        /\ s.pc = "done" => \A a \in DOMAIN heap : heap[a].owner # c

C10_OwnSteps ==
    \A c \in Calls :
        call'[c] # call[c] =>
            /\ \A d \in Calls \ {c} : call'[d] = call[d]
            /\ \A a \in DOMAIN heap :
                   heap'[a] # heap[a] =>
                       heap[a].owner \in {Null, c} /\ heap'[a].owner \in {Null, c}

C10_NoSharedState == []C10_OwnState /\ [][C10_OwnSteps]_vars

\* Both calls in the middle of a pixel, each with pathlets in its arrays.
C10_Witness ==
    /\ MisAt(call[1], "strategies") /\ MisAt(call[2], "light_walk")
    /\ call[1].mis.cam_path_len >= 1 /\ call[2].mis.written # {}

\* The strategies the claim gives partition plen of camera length tC and
\* light length tL, in the order of the loop: cam_plen from
\* min(plen-1, tC) down to max(0, plen-1-tL), light_plen = plen-1-cam_plen.
first_cam_plen(m) == Min(m.plen - 1, m.cam_path_len)
last_cam_plen(m) ==
    IF m.plen - 1 - m.light_path_len > 0 THEN m.plen - 1 - m.light_path_len ELSE 0
strategies_of(m) == first_cam_plen(m) - last_cam_plen(m) + 1

\* C11 (SpecMis): for tC in 1..MAX_LEN, tL in 0..MAX_LEN and plen in
\* 1..tC+tL+1 the while loop goes through exactly the pairs (cam_plen,
\* plen-1-cam_plen) with cam_plen from min(plen-1, tC) down to
\* max(0, plen-1-tL), each once, and then stops; when the last pair has
\* cam_plen = 0 it is the wrapped unsigned decrement that stops it.
C11_Enumerated ==
    \A c \in Calls :
        LET s == call[c]
            m == s.mis
        IN  MisAt(s, "strategies") =>
                /\ m.cam_path_len \in 1..s.max_path_len
                /\ m.light_path_len \in 0..s.max_path_len
                /\ m.plen \in 1..(m.cam_path_len + m.light_path_len + 1)
                /\ Len(m.visited) <= strategies_of(m)
                /\ \A j \in 1..Len(m.visited) :
                       m.visited[j] = <<first_cam_plen(m) - (j - 1),
                                        m.plen - 1 - (first_cam_plen(m) - (j - 1))>>
                /\ Len(m.visited) < strategies_of(m) =>
                       /\ more_strategies(m)
                       /\ m.cam_plen = first_cam_plen(m) - Len(m.visited)
                       /\ m.light_plen = m.plen - 1 - m.cam_plen
                /\ Len(m.visited) = strategies_of(m) =>
                       /\ ~more_strategies(m)
                       /\ last_cam_plen(m) = 0 =>
                              m.cam_plen = 2 ^ UnsignedBits - 1 /\ to_int(m.cam_plen) < 0

\* A partition is left only when all its strategies have been gone through.
C11_LeftWhenDone ==
    \A c \in Calls :
        LET s == call[c]
            t == call'[c]
        IN  (MisAt(s, "strategies") /\ t # s) =>
                \/ /\ MisAt(t, "strategies") /\ t.mis.plen = s.mis.plen
                   /\ Len(t.mis.visited) = Len(s.mis.visited) + 1
                \/ Len(s.mis.visited) = strategies_of(s.mis)

C11_LoopVisitsEachStrategyOnce == []C11_Enumerated /\ [][C11_LeftWhenDone]_vars

\* The partition plen = 3 of two full paths has gone through (2,0), (1,1)
\* and (0,2), and cam_plen has wrapped.
C11_Witness ==
    \E c \in Calls :
        /\ MisAt(call[c], "strategies")
        /\ call[c].mis.cam_path_len = 2 /\ call[c].mis.light_path_len = 2
        /\ call[c].mis.visited = <<(<<2, 0>>), (<<1, 1>>), (<<0, 2>>)>>
        /\ call[c].mis.cam_plen = 2 ^ UnsignedBits - 1

\* The turns gone through so far that add to partition_weight_sum: all but
\* those of a light path alone (cam_plen = 0 with light_plen >= 1).
weighted_turns(m) ==
    {j \in 1..Len(m.visited) : m.visited[j][1] >= 1 \/ m.visited[j][2] = 0}

\* C12 as stated (SpecMis): every enumerated strategy adds weight 1, so the
\* partition weight sum W is the number of strategies gone through.
C12_EveryStrategyWeighsOne ==
    \A c \in Calls :
        MisAt(call[c], "strategies") =>
            call[c].mis.partition_weight_sum = Val(Len(call[c].mis.visited))

\* C12 (SpecMis): every enumerated strategy with cam_plen >= 1, a failed join
\* included, and the strategy (0, 0) add weight 1 to W; the strategy
\* cam_plen = 0 with light_plen >= 1 adds nothing to W or to R.  So W is the
\* number of enumerated strategies other than that one.
C12_Weights ==
    \A c \in Calls :
        LET m == call[c].mis IN
        MisAt(call[c], "strategies") =>
            /\ m.partition_weight_sum = Val(Cardinality(weighted_turns(m)))
            /\ weighted_turns(m) = {} => m.partition_rad_sum = Zero

\* The partition adds R/W to the pixel when W > 0, and nothing otherwise; a
\* turn of a light path alone leaves both sums as they are.
C12_PartitionAdds ==
    \A c \in Calls :
        LET s == call[c]
            t == call'[c]
        IN  /\ (MisAt(s, "strategies") /\ t # s /\ ~more_strategies(s.mis)) =>
                   t.mis.rad = IF VLess(Zero, s.mis.partition_weight_sum)
                               THEN VAdd(s.mis.rad, VDiv(s.mis.partition_rad_sum,
                                                         s.mis.partition_weight_sum))
                               ELSE s.mis.rad
            /\ (MisAt(s, "strategies") /\ t # s /\ more_strategies(s.mis)
                  /\ s.mis.cam_plen = 0 /\ s.mis.light_plen >= 1) =>
                   /\ t.mis.partition_weight_sum = s.mis.partition_weight_sum
                   /\ t.mis.partition_rad_sum = s.mis.partition_rad_sum

C12_WeightSum == []C12_Weights /\ [][C12_PartitionAdds]_vars

\* The partition plen = 3 of two full paths: three strategies, the last one
\* (0, 2), and a weight sum of 2.
C12_Witness ==
    \E c \in Calls :
        /\ MisAt(call[c], "strategies") /\ ~more_strategies(call[c].mis)
        /\ Len(call[c].mis.visited) = 3
        /\ call[c].mis.visited[3] = <<0, 2>>
        /\ call[c].mis.partition_weight_sum = Val(2)

\* One factor of a prefix throughput: the BRDF at path[k] with outgoing
\* direction o and incoming direction i, times the cosine of the direction
\* towards path[k+1], over the density of path[k+1].
throughput_factor(current, next, o, i) ==
    VDiv(VMul(mat_eval(current.vert.geo, current.vert.normal, o, i),
              Val(inner(current.vert.normal, towards(next)))),
         next.dens)

\* Whether the prefix throughputs info of the path at a start at 1 and grow
\* by the factor with the directions (towards_prev of path[k], towards of
\* path[k+1]) taken as (o, i) if prev_is_o, and as (i, o) otherwise.
prefix_built(h, a, len, info, prev_is_o) ==
    /\ Len(info) = len
    /\ len >= 1 => info[1] = One
    /\ \A k \in 0..(len - 2) :
           LET current == Cell(h, a, k)
               next == Cell(h, a, k + 1)
           IN  info[k + 2] =
                   VMul(info[k + 1],
                        IF prev_is_o
                        THEN throughput_factor(current, next,
                                               towards_prev(current), towards(next))
                        ELSE throughput_factor(current, next,
                                               towards(next), towards_prev(current)))

\* C13 as stated (SpecMis): the camera-side prefix throughput is built with
\* f_r(cam[k], cam[k+1].towards, cam[k].towards_prev) and the light-side one
\* with f_r(path[k], path[k].towards_prev, path[k+1].towards).
C13_CameraTowardsFirst ==
    \A c \in Calls :
        LET m == call[c].mis IN
        MisAt(call[c], "strategies") =>
            /\ prefix_built(heap, m.cam_path, m.cam_path_len, m.cam_transport, FALSE)
            /\ prefix_built(heap, m.light_path, m.light_path_len, m.light_transport, TRUE)

\* C13 (SpecMis): the camera-side prefix throughput is built with
\* f_r(cam[k], cam[k].towards_prev, cam[k+1].towards) (projected_adjoint_brdf)
\* and the light-side one with f_r(path[k], path[k+1].towards,
\* path[k].towards_prev) (projected_brdf); both start at 1 for index 0.
C13_CameraTowardsPrevFirst ==
    \A c \in Calls :
        LET m == call[c].mis IN
        MisAt(call[c], "strategies") =>
            /\ prefix_built(heap, m.cam_path, m.cam_path_len, m.cam_transport, TRUE)
            /\ prefix_built(heap, m.light_path, m.light_path_len, m.light_transport, FALSE)

\* Two full paths whose second pathlets lie behind the transmissive first
\* vertex: the camera side has a throughput there, the light side has none.
C13_Witness ==
    \E c \in Calls :
        LET m == call[c].mis IN
        /\ MisAt(call[c], "strategies")
        /\ m.cam_path_len = 2 /\ m.light_path_len = 2
        /\ Cell(heap, m.cam_path, 0).vert.geo \in Transmissive
        /\ Cell(heap, m.light_path, 0).vert.geo \in Transmissive
        /\ inner(Cell(heap, m.cam_path, 0).vert.normal,
                 towards(Cell(heap, m.cam_path, 1))) < 0
        /\ inner(Cell(heap, m.light_path, 0).vert.normal,
                 towards(Cell(heap, m.light_path, 1))) < 0
        /\ m.cam_transport[2] # Zero /\ m.light_transport[2] = Zero

\* Whether the light vertex of a join can be connected to poi: the emitted
\* ray hits, the three cosines are positive and the segment is free.
connection_made(s) ==
    LET join == s.poi.vertex - s.light_info.vertex
        join_path == IF join > 0 THEN 1 ELSE -1
    IN  /\ s.light_info.valid
        /\ join # 0
        /\ inner(s.light_info.normal, join_path) > 0
        /\ inner(s.poi.normal, -join_path) > 0
        /\ inner(s.light_info.normal, -s.em.w) > 0
        /\ ~s.occluded

\* C14 as stated (SpecJoin): when the light vertex cannot be connected,
\* p2_direct is 0 and p1_direct is still part of the result, which is
\* 1/2 * p1_direct at a depth >= 1 and p1_direct at depth 0.
C14_DirectTermAlwaysKept ==
    \A c \in Calls :
        LET s == call[c]
            p1_direct == transport_direct_illum(<<s.ss>>, s.o, s.poi)
        IN  (s.pc = "joined" /\ ~connection_made(s)) =>
                s.ret = IF s.cam_path_len >= 1
                        THEN VMul(Half, VAdd(p1_direct, Zero))
                        ELSE VAdd(p1_direct, VMul(Half, Zero))

\* The values the direct term of an activation at vertex vert, seen from o,
\* can take: one sampled light, shadowed or not.
direct_terms(o, vert) ==
    {transport_direct_illum(<<ss>>, o, vert) : ss \in ShadowedSamples}

\* C15 (Spec): in unidirect_lt1 an activation of sample_indirect_illum, at
\* any depth, contributes its direct term and what its recursive call
\* returns, and no emission of its own vertex; the outer sample() adds
\* radiance(-ray.dir, n) of the primary hit once, if and only if
\* first_hits.light is non-null.
C15_Step ==
    \A c \in Calls :
        LET s == call[c]
            t == call'[c]
            n == Len(s.stack)
            f == Top(s.stack)
            hit == s.hits[s.pix]
        IN  (s.tracer = "unidirect_lt1" /\ s.pc = "pixel" /\ n >= 1 /\ t # s) =>
                /\ (f.pc = "enter" /\ Len(t.stack) > n) =>
                       t.stack[n].acc \in direct_terms(f.o, f.vert)
                /\ (f.pc = "enter" /\ Len(t.stack) < n) =>
                       \/ t.last.why = "killed" /\ t.ret = Zero
                       \/ /\ t.last.acc \in direct_terms(f.o, f.vert)
                          /\ t.ret = VDiv(t.last.acc, t.last.ps)
                /\ f.pc = "wait" =>
                       t.ret = VDiv(VAdd(f.acc,
                                         VDiv(VMul(VMul(s.ret, brdf(f.vert, f.o, f.i)),
                                                   Val(inner(f.vert.normal, f.i))),
                                              f.dens)),
                                    f.p_survive)
                /\ Len(t.stack) = 0 =>
                       t.rad[s.pix] =
                           IF hit.light # Null
                           THEN VAdd(t.ret, radiance(hit.light, -s.rays[s.pix],
                                                     hit.intersect.normal))
                           ELSE t.ret

C15_EmissionOnlyAtPrimaryHit == [][C15_Step]_vars

\* The primary hit is an emitter, and so is the vertex of the activation at
\* depth 1, whose body has run and has a direct term.
C15_Witness ==
    \E c \in Calls :
        LET s == call[c] IN
        /\ s.tracer = "unidirect_lt1" /\ s.pc = "pixel" /\ Len(s.stack) >= 3
        /\ s.hits[s.pix].light # Null
        /\ s.stack[2].pc = "wait" /\ s.stack[2].vert.geo \in Emitters
        /\ inner(s.stack[2].vert.normal, s.stack[2].o) > 0
        /\ s.stack[2].acc # Zero

\* What the roulette of an activation at depth of tracer tr has done once the
\* activation is past it: no draw and p_survive = 1 below mutate_depth, one
\* draw and p_survive = 1/2 from mutate_depth on.
roulette_played(tr, depth, draws, p_survive) ==
    IF depth >= mutate_depth(tr)
    THEN Len(draws) = 1 /\ draws[1] \in Draws /\ p_survive = Half
    ELSE draws = <<>> /\ p_survive = One

\* C16 (Spec): the roulette starts at depth 2 in unidirect and unidirect_lt1
\* and at depth 1 in bidirect_lt2.  Below that depth an activation draws no
\* roulette number, is never killed and has p_survive = 1; from that depth
\* on it draws exactly one number, returns 0 if the number is >= 1/2, and
\* otherwise goes on with p_survive = 1/2, by which it divides its result.
C16_Roulette ==
    /\ mutate_depth("unidirect") = 2
    /\ mutate_depth("unidirect_lt1") = 2
    /\ mutate_depth("bidirect_lt2") = 1
    /\ \A c \in Calls :
           LET s == call[c] IN
           s.tracer \in RecursiveTracers =>
               /\ \A k \in DOMAIN s.stack :
                      IF s.stack[k].pc = "wait"
                      THEN /\ roulette_played(s.tracer, s.stack[k].depth,
                                              s.stack[k].draws, s.stack[k].p_survive)
                           /\ s.stack[k].draws # <<>> => VLess(s.stack[k].draws[1], Half)
                      ELSE s.stack[k].draws = <<>>
               /\ s.last.why # "none" =>
                      /\ roulette_played(s.tracer, s.last.depth, s.last.draws, s.last.ps)
                      /\ s.last.why = "killed" <=>
                             s.last.draws # <<>> /\ ~VLess(s.last.draws[1], Half)
                      /\ s.last.why = "killed" => s.ret = Zero
                      /\ s.last.why \in {"absorbed", "escaped"} =>
                             s.ret = VDiv(s.last.acc, s.last.ps)

\* bidirect_lt2: the activation at depth 0 drew nothing, the one at depth 1
\* drew 1/4 and went on with p_survive = 1/2, and the one at depth 2 has
\* just been killed by a draw of 1/2.
C16_Witness ==
    \E c \in Calls :
        LET s == call[c] IN
        /\ s.tracer = "bidirect_lt2" /\ Len(s.stack) = 2
        /\ s.stack[1].pc = "wait" /\ s.stack[1].draws = <<>>
        /\ s.stack[1].p_survive = One
        /\ s.stack[2].pc = "wait" /\ s.stack[2].draws = <<(<<1, 4>>)>>
        /\ s.stack[2].p_survive = Half
        /\ s.last.depth = 2 /\ s.last.why = "killed" /\ s.last.draws = <<Half>>
        /\ s.ret = Zero

\* The pixel's camera walk (first-hit form), resp. its light walk (ray +
\* dens0 form), has written its pathlet 0 and nothing after it yet.
first_pathlet_written(s, form) ==
    /\ MisAt(s, IF form = "first_hit" THEN "cam_walk" ELSE "light_walk")
    /\ s.mis.form = form /\ s.mis.written = {0}

\* Pathlet 0 but for its light: v = -r0.dir, vert the first hit, which is
\* valid, and dens = dens0, resp. 1 in the first-hit form.
first_pathlet_fields(s, p) ==
    /\ p.v = -s.mis.bounce.i /\ p.vert = s.mis.bounce.x /\ p.vert.valid
    /\ IF s.mis.form = "first_hit"
       THEN /\ s.mis.bounce.i = s.rays[s.pix]
            /\ s.mis.bounce.x = s.hits[s.pix].intersect
            /\ p.dens = One
       ELSE /\ s.mis.bounce.i = s.mis.emission.w
            /\ p.dens = s.mis.emission.solid_angle_dens

C18_Pathlets ==
    \A c \in Calls :
        LET s == call[c]
            m == s.mis
            a == walk_array(s)
        IN  (s.pc = "pixel" /\ m.pc # "idle") =>
                /\ \A k \in m.written :
                       k >= 1 =>
                           LET p == Cell(heap, a, k) IN
                           /\ p.light = Null /\ p.dens # Zero
                           /\ p.dens \in {b.dens : b \in BrdfSamples}
                           /\ p.vert.valid /\ p.vert \in Intersections
                           /\ inner(p.vert.normal, p.v) > 0
                /\ (m.written # {} /\ m.written # {0}) =>
                       LET k == CHOOSE j \in m.written : \A l \in m.written : l <= j
                           p == Cell(heap, a, k)
                       IN  /\ [i |-> m.bounce.i, dens |-> m.bounce.dens] \in BrdfSamples
                           /\ p = sampled_pathlet(-m.bounce.i, m.bounce.x, Null, m.bounce.dens)
                /\ Returned(s) => m.written = 0..(m.stop.at - 1)

\* A pathlet is written once, right after the one before it, and not
\* touched again by the walk.
C18_WrittenOnce ==
    \A c \in Calls :
        LET s == call[c]
            t == call'[c]
            a == walk_array(s)
        IN  (Walking(s) /\ t # s /\ s.pc = "pixel" /\ t.pc = "pixel") =>
                /\ \A k \in s.mis.written : Cell(heap', a, k) = Cell(heap, a, k)
                /\ t.mis.written \in {s.mis.written, s.mis.written \cup {s.mis.depth}}

C18_LaterPathlets == []C18_Pathlets /\ [][C18_WrittenOnce]_vars

\* A returned light path of two pathlets, the second one made from a
\* sampled direction of non-zero density.
C18_Witness ==
    \E c \in Calls :
        LET s == call[c] IN
        /\ MisAt(s, "transport") /\ s.mis.form = "dens0"
        /\ s.mis.stop.at = 2 /\ s.mis.written = {0, 1}
        /\ Cell(heap, s.mis.light_path, 1).dens = Val(2)
        /\ Cell(heap, s.mis.light_path, 1).v = -s.mis.bounce.i
        /\ s.mis.cam_path_len = 2

\* The radiance of the emitter the camera's pathlet 0 recorded, 0 if none.
first_hit_emission(h, m) ==
    LET cam0 == Cell(h, m.cam_path, 0) IN
    IF cam0.light # Null
    THEN radiance(cam0.light, towards_prev(cam0), cam0.vert.normal)
    ELSE Zero

\* C19 (SpecMis): the partition plen = 1 has the single strategy cam_plen = 0,
\* light_plen = 0.  It contributes radiance(towards_prev, n_vert) of the
\* emitter recorded in the camera's pathlet 0, and 0 if there is none, with a
\* partition weight sum of exactly 1.
C19_Sums ==
    \A c \in Calls :
        LET m == call[c].mis IN
        (MisAt(call[c], "strategies") /\ m.plen = 1) =>
            /\ m.rad = Zero
            /\ IF more_strategies(m)
               THEN /\ m.visited = <<>> /\ m.cam_plen = 0 /\ m.light_plen = 0
                    /\ m.partition_weight_sum = Zero /\ m.partition_rad_sum = Zero
               ELSE /\ m.visited = <<(<<0, 0>>)>>
                    /\ m.partition_weight_sum = One
                    /\ m.partition_rad_sum = first_hit_emission(heap, m)

\* The pixel receives that radiance undivided.
C19_Undivided ==
    \A c \in Calls :
        LET s == call[c]
            t == call'[c]
        IN  (MisAt(s, "strategies") /\ s.mis.plen = 1 /\ ~more_strategies(s.mis) /\ t # s) =>
                /\ MisAt(t, "strategies") /\ t.mis.plen = 2
                /\ t.mis.rad = first_hit_emission(heap, s.mis)

C19_LengthOnePartition == []C19_Sums /\ [][C19_Undivided]_vars

\* The partition plen = 2 begins with the radiance of the emitter the camera
\* ray hit.
C19_Witness ==
    \E c \in Calls :
        LET m == call[c].mis IN
        /\ MisAt(call[c], "strategies") /\ m.plen = 2 /\ m.visited = <<>>
        /\ Cell(heap, m.cam_path, 0).light # Null
        /\ m.rad = radiance(Cell(heap, m.cam_path, 0).light,
                            Cell(heap, m.cam_path, 0).v,
                            Cell(heap, m.cam_path, 0).vert.normal)
        /\ m.rad # Zero

\* C20 (SpecMis): for tC in 1..MAX_LEN and tL in 0..MAX_LEN every element a
\* turn of the while loop reads is in bounds.  cam_path[cam_plen-1] and
\* cam_transport.transport(cam_plen-1) are read only with 1 <= cam_plen <= tC,
\* light_path[light_plen-1] and light_transport.transport(light_plen-1) only
\* with 1 <= light_plen <= tL, index 0 of a path only if the path has a
\* pathlet, and nothing of light_path when tL = 0.  The two paths fit the
\* arrays that light_transport_info goes through.
C20_ReadsInBounds ==
    \A c \in Calls :
        LET s == call[c]
            m == s.mis
            tC == m.cam_path_len
            tL == m.light_path_len
        IN  MisAt(s, "strategies") =>
                /\ tC \in 1..s.max_path_len /\ tL \in 0..s.max_path_len
                /\ \A k \in 0..(tC - 1) : InRange(heap, m.cam_path, k)
                /\ \A k \in 0..(tL - 1) : InRange(heap, m.light_path, k)
                /\ Len(m.cam_transport) = tC /\ Len(m.light_transport) = tL
                /\ m.visited = <<>> => m.reads = {}
                /\ m.visited # <<>> =>
                       LET cam_plen == m.visited[Len(m.visited)][1]
                           light_plen == m.visited[Len(m.visited)][2]
                       IN  \A r \in m.reads :
                               /\ r[1] \in {"cam_path", "cam_transport"} =>
                                      /\ r[2] \in 0..(tC - 1)
                                      /\ r[2] \in {0, cam_plen - 1}
                                      /\ r[2] = cam_plen - 1 => cam_plen \in 1..tC
                               /\ r[1] = "cam_transport" =>
                                      r[2] = cam_plen - 1 /\ r[2] + 1 \in DOMAIN m.cam_transport
                               /\ r[1] \in {"light_path", "light_transport"} =>
                                      /\ tL # 0 /\ r[2] \in 0..(tL - 1)
                                      /\ r[2] \in {0, light_plen - 1}
                                      /\ light_plen \in 1..tL
                               /\ r[1] = "light_transport" =>
                                      /\ r[2] = light_plen - 1
                                      /\ r[2] + 1 \in DOMAIN m.light_transport
                               /\ r[1] = "cam_path" => InRange(heap, m.cam_path, r[2])
                               /\ r[1] = "light_path" => InRange(heap, m.light_path, r[2])

\* The join of two full paths at their last pathlets: the turn (2, 2) read
\* cam_path[1], light_path[1] and both prefix throughputs at index 1.
C20_Witness ==
    \E c \in Calls :
        LET m == call[c].mis IN
        /\ MisAt(call[c], "strategies")
        /\ m.cam_path_len = MaxLen /\ m.light_path_len = MaxLen
        /\ m.visited = <<(<<MaxLen, MaxLen>>)>>
        /\ {<<"cam_path", MaxLen - 1>>, <<"light_path", MaxLen - 1>>,
            <<"cam_transport", MaxLen - 1>>, <<"light_transport", MaxLen - 1>>}
               \subseteq m.reads

\* The step of the top activation of call c from its entry to its return or
\* to its recursive call.
activation(c) == UnidirectCall(c) \/ UnidirectLt1Call(c)

\* An activation that has just returned without a recursive call of its own:
\* killed by the roulette, absorbed, or its bounce ray missed or hit a back
\* face.
ended_here(s) ==
    /\ s.pc = "pixel" /\ s.last.why \in {"killed", "absorbed", "escaped"}
    /\ s.last.depth = Len(s.stack)

\* C21, no cap (SpecUnidirect): at every depth, whatever the maximum path
\* length, an activation at its entry can go one level deeper.
C21_CanRecurse ==
    \A c \in Calls :
        LET s == call[c] IN
        (s.pc = "pixel" /\ s.stack # <<>> /\ Top(s.stack).pc = "enter"
           /\ Top(s.stack).depth < depth_followed(s.tracer)) =>
            ENABLED (activation(c) /\ Len(call'[c].stack) = Len(call[c].stack) + 1)

\* An activation at its entry returns only if the roulette kills it (a draw
\* >= 1/2), its sample is absorbed, or its bounce ray misses or hits a back
\* face; otherwise it calls itself one level deeper, past the roulette depth
\* after a draw < 1/2 and always with a non-zero density.
C21_RecursesUnlessEnded ==
    \A c \in Calls :
        LET s == call[c]
            t == call'[c]
            n == Len(s.stack)
        IN  (s.pc = "pixel" /\ s.stack # <<>> /\ Top(s.stack).pc = "enter" /\ t # s) =>
                \/ /\ Len(t.stack) = n + 1
                   /\ t.stack[n].pc = "wait" /\ t.stack[n].dens # Zero
                   /\ t.stack[n].depth >= mutate_depth(s.tracer) =>
                          /\ t.stack[n].draws # <<>>
                          /\ VLess(t.stack[n].draws[1], Half)
                \/ /\ Len(t.stack) = n - 1 /\ ended_here(t)
                   /\ t.last.why = "killed" =>
                          /\ t.last.draws # <<>>
                          /\ ~VLess(t.last.draws[1], Half)

\* C21 (SpecUnidirect): the unidirectional recursion has no depth cap.  A run
\* in which an activation is killed, absorbed or escapes returns from the
\* whole recursion; as long as every draw is < 1/2 and every bounce hits a
\* front face with non-zero density the recursion goes deeper.
C21_NoDepthCap ==
    /\ []C21_CanRecurse
    /\ [][C21_RecursesUnlessEnded]_vars
    /\ \A c \in {1} : ended_here(call[c]) ~> (call[c].stack = <<>>)

\* A stack as deep as the model follows it, beyond the maximum path length:
\* the activation at the roulette depth drew 1/4, survived and called itself.
C21_Witness ==
    \E c \in Calls :
        LET s == call[c]
            n == depth_followed(s.tracer)
        IN  /\ s.tracer \in {"unidirect", "unidirect_lt1"}
            /\ Len(s.stack) = n + 1 /\ n > MaxLen
            /\ Top(s.stack).pc = "enter"
            /\ \A k \in 1..n :
                   /\ s.stack[k].pc = "wait" /\ s.stack[k].dens # Zero
                   /\ s.stack[k].draws = IF k - 1 >= mutate_depth(s.tracer)
                                         THEN <<(<<1, 4>>)>> ELSE <<>>
            /\ s.stack[n].depth >= mutate_depth(s.tracer)

(***************************************************************************)
(* C22: a pixel whose first hit is invalid.                                *)
(***************************************************************************)
\* Every ray of the call missed: no first hit is valid.
all_missed(s) == \A i \in 1..Len(s.rays) : ~s.hits[i].intersect.valid

\* C22 as stated (Spec): while and after an integrator treats rays whose
\* first hits are all invalid it samples no light source, does not query the
\* path space and draws nothing from the rng.
C22_InvalidFirstHitTouchesNothing ==
    \A c \in Calls :
        LET s == call[c] IN
        (s.pc \in {"pixel", "done"} /\ all_missed(s)) =>
            s.used \cap {"rng", "lights", "space"} = {}

(***************************************************************************)
(* C23: parent pointers and children sets.                                 *)
(***************************************************************************)
\* add_child returned true exactly when the child was not yet in the set of
\* this, remove_child exactly when it was.
returns_report_membership ==
    LET m == call[1] IN
    /\ m.op = "add_child" => (m.ret <=> ~m.had) /\ m.child \in heap[m.self].m_children
    /\ m.op = "remove_child" => (m.ret <=> m.had) /\ m.child \notin heap[m.self].m_children

\* C23 as stated (SpecObj): after any sequence of add_child and remove_child
\* calls a child is in the children set of p exactly when its parent pointer
\* is p, so it is in the set of at most one parent; and the two calls return
\* whether they changed the set.
C23_ParentsAndChildrenAgree ==
    /\ \A p \in Objs, c \in Objs :
           c \in heap[p].m_children <=> heap[c].m_parent = p
    /\ \A p \in Objs, q \in Objs, c \in Objs :
           (c \in heap[p].m_children /\ c \in heap[q].m_children) => p = q
    /\ returns_report_membership

(***************************************************************************)
(* C24: object ids.                                                        *)
(***************************************************************************)
\* The threads between lock and unlock.
in_critical_section == {t \in Minters : call[t].pc \in {"locked", "read", "written"}}

\* The ids assigned to next_id and not yet returned.
ids_in_flight == {t \in Minters : call[t].pc \in {"written", "unlocked"}}

\* The ids are distinct and are 101, 102, ... without a gap: the ids returned
\* and those about to be returned are pairwise different and together make
\* up first_obj_id .. g_obj_id_counter - 1.
C24_IdsDistinctNoGap ==
    LET ret == heap.returned IN
    /\ \A i \in DOMAIN ret, j \in DOMAIN ret : ret[i] = ret[j] => i = j
    /\ \A t \in ids_in_flight, u \in ids_in_flight :
           call[t].next_id = call[u].next_id => t = u
    /\ \A t \in ids_in_flight, i \in DOMAIN ret : call[t].next_id # ret[i]
    /\ {ret[i] : i \in DOMAIN ret} \cup {call[t].next_id : t \in ids_in_flight}
           = first_obj_id .. (heap.g_obj_id_counter - 1)

\* Only the thread that holds the mutex is between lock and unlock.
C24_MutexHeld ==
    \A t \in in_critical_section : heap.g_obj_id_counter_mutex = t

\* A step that reads the counter or writes it is a step of the thread that
\* holds the mutex, before and after.
C24_CounterUnderMutex ==
    \A t \in Minters :
        (\/ call[t].pc = "locked" /\ call'[t].pc = "read"
         \/ call'[t] # call[t] /\ heap'.g_obj_id_counter # heap.g_obj_id_counter) =>
            /\ heap.g_obj_id_counter_mutex = t
            /\ heap'.g_obj_id_counter_mutex = t

\* C24 (SpecIds): under any interleaving of the threads that construct
\* objects, the ids next_obj_id returns are pairwise different, they are
\* exactly 101, 102, ... without a gap, and the counter is read and
\* incremented only by the thread holding the mutex.
C24_UniqueIds ==
    /\ [](C24_IdsDistinctNoGap /\ C24_MutexHeld)
    /\ [][C24_CounterUnderMutex]_vars

\* Both threads have returned ids, 101 and 102 the first two, and thread 2
\* waits for the mutex that thread 1 holds after its read of the counter.
C24_Witness ==
    /\ Len(heap.returned) >= 3
    /\ heap.returned[1] = first_obj_id /\ heap.returned[2] = first_obj_id + 1
    /\ call[2].made >= 1 /\ call[1].made >= 1
    /\ call[1].pc = "read" /\ call[2].pc = "idle" /\ call[2].made < MaxMinted

(***************************************************************************)
(* C25: the progressive renderer.                                          *)
(***************************************************************************)
\* C25 (SpecRender): after any sequence of render calls of which one at
\* least found the projection or the size changed, m_samps is 5 times the
\* number of calls from the latest such call on, the accumulator of each
\* pixel is the sum of the estimates of those calls, and the compositor
\* holds accumulator / m_samps.
C25_ProgressiveMean ==
    LET m == call[1] IN
    (m.pc = "rendered" /\ m.since > 0) =>
        /\ heap.m_samps = n_samples * m.since
        /\ m.since <= m.renders
        /\ DOMAIN heap.m_rad = 1..(heap.m_w * heap.m_h)
        /\ heap.m_rad = m.sums
        /\ DOMAIN m.image = DOMAIN heap.m_rad
        /\ \A p \in DOMAIN m.image : m.image[p] = VDiv(heap.m_rad[p], Val(heap.m_samps))

\* Three calls: the second found a change, the third did not; a pixel has
\* accumulated 2 over 10 samples, and the compositor shows 1/5.
C25_Witness ==
    /\ call[1].pc = "rendered" /\ call[1].renders = 3 /\ call[1].since = 2
    /\ heap.m_samps = 10 /\ heap.m_w = 2
    /\ heap.m_rad[1] = Val(2) /\ call[1].image[1] = <<1, 5>>
    /\ heap.m_rad[2] = One

====
